---- MODULE Spec2Model ----
(***************************************************************************)
(* Comparison, ranking, dashboard, trends and forecast read paths of the   *)
(* accreditation backend (backend/routers/compare.py,                      *)
(* backend/routers/dashboard.py) and its batch API                         *)
(* (backend/routers/batches.py) over the SQLite store of                   *)
(* backend/config/database.py.                                             *)
(*                                                                         *)
(* Conventions                                                             *)
(*   - A Python Optional is a sequence of length <= 1: None is << >> and   *)
(*     the number n is <<n>>.                                              *)
(*   - KPI values are non-negative integers (the code's floats).           *)
(*   - Batch.kpi_results (a JSON object) is a sequence of entries          *)
(*     [key, shape, v] in insertion order: shape "num" is a bare number,   *)
(*     shape "rec" a record {value: v} (v may be null), shape "other" any  *)
(*     other JSON value.                                                   *)
(*   - ranking_score is kept in hundredths (the code rounds to 2 places).  *)
(***************************************************************************)
EXTENDS Integers, Sequences, FiniteSets, TLC

VARIABLES batches, files, blocks, flags, cache, resp, tasks

vars == <<batches, files, blocks, flags, cache, resp, tasks>>

(***************************************************************************)
(* Bounds                                                                  *)
(***************************************************************************)
\* KPI values, sufficiency percentages and compliance counts range over 0..MaxVal
MaxVal == 2

\* positive weights of a rank request range over 1..MaxWeight
MaxWeight == 2

(***************************************************************************)
(* Values                                                                  *)
(***************************************************************************)
None == << >>

Some(v) == <<v>>

BatchIds == {"b1", "b2", "b3"}

DemoId == "demo-x"

Statuses == {"created", "processing", "completed", "failed"}

Departments == {"CSE", "ECE"}

CANONICAL_KPIS ==
  <<"fsr_score", "infrastructure_score", "placement_index", "lab_compliance_index", "overall_score">>

KpiKeys == {CANONICAL_KPIS[i] : i \in 1..Len(CANONICAL_KPIS)}

VALID_STATUSES == {"completed"}

NoReason == "None"

\* no request is being answered
NoResp == [op |-> "none"]

\* dict.get(key) on a kpi_results object: << >> when the key is absent, <<entry>> otherwise
KpiEntry(kpi_results, key) == SelectSeq(kpi_results, LAMBDA e : e.key = key)

(***************************************************************************)
(* Eligibility guard: compare.py _validate_batch                           *)
(***************************************************************************)
\* ProductionGuard.validate_batch_for_operations: the submission's validity flag
ProductionGuardValid(batch) == batch.is_invalid # 1

\* variant: only the record form {value: v} is read
get_kpi_value_RecordOnly(kpi_results, key) ==
  LET hit == KpiEntry(kpi_results, key)
  IN  IF hit = << >> THEN None
      ELSE IF hit[1].shape = "rec" THEN hit[1].v
      ELSE None

get_kpi_value(kpi_results, key) ==
  LET hit == KpiEntry(kpi_results, key)
  IN  IF hit = << >> THEN None
      ELSE IF hit[1].shape = "rec" THEN hit[1].v
      ELSE IF hit[1].shape = "num" THEN hit[1].v
      ELSE None

\* mutant: the document check applied to system-sourced submissions as well
ValidateIn_DocsForAll(bs, fs, bl, batch_id) ==
  IF batch_id \notin DOMAIN bs THEN [is_valid |-> FALSE, reason |-> "batch_not_found"]
  ELSE
    LET batch == bs[batch_id]
        overall_score == get_kpi_value(batch.kpi_results, "overall_score")
    IN  IF ~ProductionGuardValid(batch) THEN [is_valid |-> FALSE, reason |-> "batch_invalid"]
        ELSE IF batch.status \notin VALID_STATUSES
          THEN [is_valid |-> FALSE, reason |-> "status_" \o batch.status]
        ELSE IF fs[batch_id] = 0
          THEN [is_valid |-> FALSE, reason |-> "no_processed_documents"]
        ELSE IF bl[batch_id].valid = 0
          THEN [is_valid |-> FALSE, reason |-> "no_valid_blocks"]
        ELSE IF overall_score = None \/ overall_score = Some(0)
          THEN [is_valid |-> FALSE, reason |-> "no_valid_kpis"]
        ELSE [is_valid |-> TRUE, reason |-> NoReason]

\* the guard over a given store: (is_valid, skip_reason)
ValidateIn(bs, fs, bl, batch_id) ==
  IF batch_id \notin DOMAIN bs THEN [is_valid |-> FALSE, reason |-> "batch_not_found"]
  ELSE
    LET batch == bs[batch_id]
        is_system_batch == batch.data_source = "system"
        file_count == fs[batch_id]
        valid_blocks == bl[batch_id].valid
        overall_score == get_kpi_value(batch.kpi_results, "overall_score")
    IN  IF ~ProductionGuardValid(batch) THEN [is_valid |-> FALSE, reason |-> "batch_invalid"]
        ELSE IF batch.status \notin VALID_STATUSES
          THEN [is_valid |-> FALSE, reason |-> "status_" \o batch.status]
        ELSE IF is_system_batch /\ valid_blocks = 0
          THEN [is_valid |-> FALSE, reason |-> "no_valid_blocks"]
        ELSE IF ~is_system_batch /\ file_count = 0
          THEN [is_valid |-> FALSE, reason |-> "no_processed_documents"]
        ELSE IF ~is_system_batch /\ valid_blocks = 0
          THEN [is_valid |-> FALSE, reason |-> "no_valid_blocks"]
        ELSE IF overall_score = None \/ overall_score = Some(0)
          THEN [is_valid |-> FALSE, reason |-> "no_valid_kpis"]
        ELSE [is_valid |-> TRUE, reason |-> NoReason]

_validate_batch(batch_id) == ValidateIn(batches, files, blocks, batch_id)

\* one call of the guard, its result recorded in resp
ValidateBatch(batch_id) ==
  /\ resp' = [op |-> "validate", batch_id |-> batch_id,
              is_valid |-> _validate_batch(batch_id).is_valid,
              reason |-> _validate_batch(batch_id).reason]
  /\ UNCHANGED <<batches, files, blocks, flags, cache, tasks>>

(***************************************************************************)
(* Result cache (utils.performance_cache): get / set, entries expire       *)
(***************************************************************************)
\* the key of an operation over an id list; compare sorts the ids first, so
\* the list enters the key as the multiset of its ids
get_cache_key(op, ids) ==
  [op |-> op,
   ids |-> [x \in {ids[i] : i \in 1..Len(ids)} |->
              Cardinality({i \in 1..Len(ids) : ids[i] = x})]]

EmptyCache == [k \in {} |-> None]

CacheHit(ch, key) == key \in DOMAIN ch

CacheSet(ch, key, value) ==
  [k \in DOMAIN ch \cup {key} |-> IF k = key THEN value ELSE ch[k]]

\* the TTL of one entry runs out
CacheExpire ==
  /\ resp = NoResp
  /\ \E key \in DOMAIN cache :
       cache' = [k \in DOMAIN cache \ {key} |-> cache[k]]
  /\ UNCHANGED <<batches, files, blocks, flags, resp, tasks>>

(***************************************************************************)
(* Dashboard: dashboard.py get_dashboard_data                              *)
(***************************************************************************)
\* the store as one value
Db == [batches |-> batches, files |-> files, blocks |-> blocks, flags |-> flags]

\* values of the `user` parameter: None, the unresolved Depends(...) default
\* of a direct Python call, or the dict of an authenticated user
NoUser == [kind |-> "none", uid |-> "", role |-> "", department_id |-> ""]

DependsDefault == [kind |-> "depends", uid |-> "", role |-> "", department_id |-> ""]

UserDict(uid, role, department_id) ==
  [kind |-> "dict", uid |-> uid, role |-> role, department_id |-> department_id]

IsDemo(batch_id) == batch_id = DemoId

\* kpi_cards and kpis of lines 709-742: one card per entry of a known shape
RECURSIVE KpiCards(_)
KpiCards(kpi_results) ==
  IF kpi_results = << >> THEN << >>
  ELSE LET e == Head(kpi_results)
       IN  IF e.shape \in {"rec", "num"}
             THEN <<[name |-> e.key, value |-> e.v]>> \o KpiCards(Tail(kpi_results))
             ELSE KpiCards(Tail(kpi_results))

KpisMap(kpi_results) ==
  LET keys == {kpi_results[i].key : i \in {j \in 1..Len(kpi_results) :
                                            kpi_results[j].shape \in {"rec", "num"}}}
  IN  [k \in keys |-> KpiEntry(kpi_results, k)[1].v]

\* the DashboardResponse built from the store (lines 705-916)
DashboardOf(db, batch_id) ==
  LET batch == db.batches[batch_id]
  IN  [batch_id |-> batch_id,
       institution_name |-> batch.institution_name,
       kpi_cards |-> KpiCards(batch.kpi_results),
       kpis |-> KpisMap(batch.kpi_results),
       sufficiency |-> batch.sufficiency,
       compliance_flags |-> db.flags[batch_id],
       batch_status |-> batch.status,
       is_invalid |-> batch.is_invalid = 1]

\* _get_demo_dashboard_data: a fixed record
DemoDashboard ==
  [batch_id |-> DemoId, institution_name |-> "Indian Institute of Technology Delhi",
   kpi_cards |-> << >>, kpis |-> [k \in {} |-> None],
   sufficiency |-> 0, compliance_flags |-> 0, batch_status |-> "completed",
   is_invalid |-> FALSE]

\* access control of lines 688-701; "crash" is the AttributeError of
\* user.get on the Depends default
AccessOutcome(batch, user) ==
  IF user.kind = "none" \/ batch.data_source = "system" THEN "ok"
  ELSE IF user.kind = "depends" THEN "crash"
  ELSE IF user.role = "institution" THEN "ok"
  ELSE IF user.department_id # "" THEN
         IF batch.department_id # user.department_id THEN "http403" ELSE "ok"
  ELSE IF user.uid # "" THEN
         IF batch.user_id # user.uid THEN "http403" ELSE "ok"
  ELSE "ok"

\* outcome of one call: kind "ok" (dash returned), "http404", "http403" or
\* "crash", and the cache after the call
get_dashboard_data(db, ch, batch_id, user) ==
  LET key == get_cache_key("dashboard", <<batch_id>>)
  IN  IF IsDemo(batch_id) THEN [kind |-> "ok", dash |-> DemoDashboard, cache |-> ch]
      ELSE IF CacheHit(ch, key) THEN [kind |-> "ok", dash |-> ch[key], cache |-> ch]
      ELSE IF batch_id \notin DOMAIN db.batches
        THEN [kind |-> "http404", dash |-> DemoDashboard, cache |-> ch]
      ELSE IF AccessOutcome(db.batches[batch_id], user) # "ok"
        THEN [kind |-> AccessOutcome(db.batches[batch_id], user),
              dash |-> DemoDashboard, cache |-> ch]
      ELSE [kind |-> "ok", dash |-> DashboardOf(db, batch_id),
            cache |-> CacheSet(ch, key, DashboardOf(db, batch_id))]

\* variant: the dashboard keeps the sufficiency it computed on the row
GetDashboard_StoresSufficiency(batch_id, user) ==
  LET out == get_dashboard_data(Db, cache, batch_id, user)
  IN  /\ resp = NoResp
      /\ resp' = [op |-> "dashboard", batch_id |-> batch_id, user |-> user,
                  kind |-> out.kind, dash |-> out.dash]
      /\ cache' = out.cache
      /\ batches' = IF out.kind = "ok" /\ batch_id \in DOMAIN batches
                      THEN [batches EXCEPT ![batch_id].sufficiency = MaxVal]
                      ELSE batches
      /\ UNCHANGED <<files, blocks, flags, tasks>>

\* GET /dashboard/{batch_id}
GetDashboard(batch_id, user) ==
  LET out == get_dashboard_data(Db, cache, batch_id, user)
  IN  /\ resp = NoResp
      /\ resp' = [op |-> "dashboard", batch_id |-> batch_id, user |-> user,
                  kind |-> out.kind, dash |-> out.dash]
      /\ cache' = out.cache
      /\ UNCHANGED <<batches, files, blocks, flags, tasks>>

(***************************************************************************)
(* Ranking: compare.py rank_institutions and GET /compare/rank             *)
(***************************************************************************)
\* lines 217-227: the canonical key a KPI card is filed under, by the first
\* of "fsr", "infrastructure", "placement", "lab", "overall" its name
\* contains ("" when it contains none); card names are the stored keys
CardKpi(name) ==
  IF name \in {"fsr_score", "fsr"} THEN "fsr_score"
  ELSE IF name \in {"infrastructure_score", "infrastructure"} THEN "infrastructure_score"
  ELSE IF name \in {"placement_index", "placement_rate_num"} THEN "placement_index"
  ELSE IF name \in {"lab_compliance_index", "lab_compliance"} THEN "lab_compliance_index"
  ELSE IF name = "overall_score" THEN "overall_score"
  ELSE ""

\* lines 214-227: later cards overwrite earlier ones
RECURSIVE CardValues(_, _)
CardValues(cards, kpis) ==
  IF cards = << >> THEN kpis
  ELSE LET k == CardKpi(Head(cards).name)
       IN  CardValues(Tail(cards),
                      IF k = "" THEN kpis ELSE CacheSet(kpis, k, Head(cards).value))

RECURSIVE SumOver(_, _)
SumOver(f, S) ==
  IF S = {} THEN 0
  ELSE LET k == CHOOSE x \in S : TRUE IN f[k] + SumOver(f, S \ {k})

\* line 230
TotalWeight(weight_map) == SumOver(weight_map, DOMAIN weight_map)

\* line 238: the metrics that are counted
Counted(weight_map, kpis) ==
  {k \in DOMAIN weight_map : weight_map[k] > 0 /\ k \in DOMAIN kpis /\ kpis[k] # None}

\* lines 235-240
WeightedSum(weight_map, kpis) ==
  SumOver([k \in Counted(weight_map, kpis) |-> weight_map[k] * kpis[k][1]],
          Counted(weight_map, kpis))

\* round(num / den, 2) in hundredths, ties to even; den # 0
Round2(num, den) ==
  LET n == IF den < 0 THEN 0 - 100 * num ELSE 100 * num
      d == IF den < 0 THEN 0 - den ELSE den
      q == n \div d
      r == n - q * d
  IN  IF 2 * r < d THEN q
      ELSE IF 2 * r > d THEN q + 1
      ELSE IF q % 2 = 0 THEN q ELSE q + 1

\* dict.get(key) of an Optional-valued dict
DictGet(d, key) == IF key \in DOMAIN d THEN d[key] ELSE None

\* mutant: the denominator is the weight of the counted metrics only
RankingInstitution_PresentWeights(batch_id, weight_map, kpis) ==
  LET ws == WeightedSum(weight_map, kpis)
      tw == SumOver(weight_map, Counted(weight_map, kpis))
      ov == DictGet(kpis, "overall_score")
  IN  [batch_id |-> batch_id,
       ranking_score |-> Round2(ws, tw),
       fsr_score |-> DictGet(kpis, "fsr_score"),
       infrastructure_score |-> DictGet(kpis, "infrastructure_score"),
       placement_index |-> DictGet(kpis, "placement_index"),
       lab_compliance_index |-> DictGet(kpis, "lab_compliance_index"),
       overall_score |-> IF ov # None /\ ov # Some(0) THEN <<ov[1], 1>> ELSE <<ws, tw>>]

\* lines 255-268: the RankingInstitution of one scored submission
RankingInstitution(batch_id, weight_map, kpis) ==
  LET ws == WeightedSum(weight_map, kpis)
      tw == TotalWeight(weight_map)
      ov == DictGet(kpis, "overall_score")
  IN  [batch_id |-> batch_id,
       ranking_score |-> Round2(ws, tw),
       fsr_score |-> DictGet(kpis, "fsr_score"),
       infrastructure_score |-> DictGet(kpis, "infrastructure_score"),
       placement_index |-> DictGet(kpis, "placement_index"),
       lab_compliance_index |-> DictGet(kpis, "lab_compliance_index"),
       overall_score |-> IF ov # None /\ ov # Some(0) THEN <<ov[1], 1>> ELSE <<ws, tw>>]

\* list.sort(key=ranking_score, reverse=True): stable, descending
\* variant: an entry is placed in front of the entries of equal score
RECURSIVE InsertDesc_BeforeEqual(_, _)
InsertDesc_BeforeEqual(sorted, x) ==
  IF sorted = << >> THEN <<x>>
  ELSE IF Head(sorted).ranking_score > x.ranking_score
    THEN <<Head(sorted)>> \o InsertDesc_BeforeEqual(Tail(sorted), x)
    ELSE <<x>> \o sorted

RECURSIVE InsertDesc(_, _)
InsertDesc(sorted, x) ==
  IF sorted = << >> THEN <<x>>
  ELSE IF Head(sorted).ranking_score >= x.ranking_score
    THEN <<Head(sorted)>> \o InsertDesc(Tail(sorted), x)
    ELSE <<x>> \o sorted

\* mutant: the list is left in request order
SortDesc_Unsorted(list) == list

RECURSIVE SortDesc(_)
SortDesc(list) ==
  IF list = << >> THEN << >>
  ELSE InsertDesc(SortDesc(SubSeq(list, 1, Len(list) - 1)), list[Len(list)])

\* lines 195-268: the loop over batch_ids
RECURSIVE RankLoop(_, _, _, _, _, _)
RankLoop(db, ch, batch_ids, weight_map, ranked, insufficient) ==
  IF batch_ids = << >>
    THEN [ranked |-> ranked, insufficient |-> insufficient, cache |-> ch]
  ELSE
    LET batch_id == Head(batch_ids)
        rest == Tail(batch_ids)
        out == get_dashboard_data(db, ch, batch_id, DependsDefault)
        kpis == CardValues(out.dash.kpi_cards, [k \in {} |-> None])
    IN  IF batch_id \notin DOMAIN db.batches
          THEN RankLoop(db, ch, rest, weight_map, ranked, Append(insufficient, batch_id))
        ELSE IF db.batches[batch_id].status # "completed"
          THEN RankLoop(db, ch, rest, weight_map, ranked, Append(insufficient, batch_id))
        ELSE IF out.kind # "ok"
          THEN RankLoop(db, out.cache, rest, weight_map, ranked,
                        Append(insufficient, batch_id))
        ELSE IF TotalWeight(weight_map) = 0
          THEN RankLoop(db, out.cache, rest, weight_map, ranked,
                        Append(insufficient, batch_id))
        ELSE IF Counted(weight_map, kpis) = {}
          THEN RankLoop(db, out.cache, rest, weight_map, ranked,
                        Append(insufficient, batch_id))
        ELSE RankLoop(db, out.cache, rest, weight_map,
                      Append(ranked, RankingInstitution(batch_id, weight_map, kpis)),
                      insufficient)

FirstN(list, n) == SubSeq(list, 1, IF n < Len(list) THEN n ELSE Len(list))

\* rank_institutions (lines 178-291); every skipped id carries reason "no_kpis"
rank_institutions(db, ch, batch_ids, weight_map, top_n) ==
  LET loop == RankLoop(db, ch, batch_ids, weight_map, << >>, << >>)
  IN  [institutions |-> FirstN(SortDesc(loop.ranked), top_n),
       insufficient_batches |->
         [i \in 1..Len(loop.insufficient) |->
            [batch_id |-> loop.insufficient[i], reason |-> "no_kpis"]],
       cache |-> loop.cache]

\* parsed.get(a) or parsed.get(b) or ... or 0 (lines 338-342)
RECURSIVE FirstTruthy(_, _)
FirstTruthy(parsed, names) ==
  IF names = << >> THEN 0
  ELSE IF Head(names) \in DOMAIN parsed /\ parsed[Head(names)] # 0
    THEN parsed[Head(names)]
    ELSE FirstTruthy(parsed, Tail(names))

\* lines 337-343
WeightsFromJson(parsed) ==
  [k \in KpiKeys |->
     CASE k = "fsr_score" -> FirstTruthy(parsed, <<"fsr", "fsr_score">>)
       [] k = "infrastructure_score" ->
            FirstTruthy(parsed, <<"infrastructure", "infrastructure_score", "infra">>)
       [] k = "placement_index" -> FirstTruthy(parsed, <<"placement", "placement_index">>)
       [] k = "lab_compliance_index" ->
            FirstTruthy(parsed, <<"lab", "lab_compliance", "lab_compliance_index">>)
       [] k = "overall_score" -> FirstTruthy(parsed, <<"overall", "overall_score">>)]

\* lines 314-328: the single-KPI selectors ("" for any other value of kpi)
SingleKpi(kpi_key) ==
  IF kpi_key \in {"fsr", "fsr_score"} THEN "fsr_score"
  ELSE IF kpi_key \in {"infrastructure", "infrastructure_score", "infra"}
    THEN "infrastructure_score"
  ELSE IF kpi_key \in {"placement", "placement_index"} THEN "placement_index"
  ELSE IF kpi_key \in {"lab", "lab_compliance", "lab_compliance_index"}
    THEN "lab_compliance_index"
  ELSE IF kpi_key \in {"overall", "overall_score"} THEN "overall_score"
  ELSE ""

NoWeights == [kind |-> "missing", parsed |-> [k \in {} |-> 0]]

BadJson == [kind |-> "invalid", parsed |-> [k \in {} |-> 0]]

JsonWeights(parsed) == [kind |-> "json", parsed |-> parsed]

\* a rejected request: no call of rank_institutions
RankRejected(batch_ids, kpi, top_n, weights) ==
  [op |-> "rank", code |-> 400, batch_ids |-> batch_ids, kpi |-> kpi, top_n |-> top_n,
   weights |-> weights, invoked |-> FALSE, weight_map |-> [k \in {} |-> 0],
   institutions |-> << >>, insufficient_batches |-> << >>]

RankAnswered(batch_ids, kpi, top_n, weights, weight_map, result) ==
  [op |-> "rank", code |-> 200, batch_ids |-> batch_ids, kpi |-> kpi, top_n |-> top_n,
   weights |-> weights, invoked |-> TRUE, weight_map |-> weight_map,
   institutions |-> result.institutions,
   insufficient_batches |-> result.insufficient_batches]

\* the weight map of a request, or << >> when the request is rejected (lines 306-348)
RankWeightMap(batch_ids, kpi, weights) ==
  IF Len(batch_ids) < 1 THEN << >>
  ELSE IF SingleKpi(kpi) # "" THEN <<[k \in {SingleKpi(kpi)} |-> 1]>>
  ELSE IF kpi \in {"all", "weighted", "multi"} THEN
    IF weights.kind = "missing" THEN << >>
    ELSE IF weights.kind = "invalid" THEN << >>
    ELSE IF \A k \in KpiKeys : WeightsFromJson(weights.parsed)[k] = 0 THEN << >>
    ELSE <<WeightsFromJson(weights.parsed)>>
  ELSE << >>

\* GET /compare/rank (rank_top_institutions, lines 294-353)
RankTop(batch_ids, kpi, top_n, weights) ==
  LET wm == RankWeightMap(batch_ids, kpi, weights)
      result == rank_institutions(Db, cache, batch_ids, wm[1], top_n)
  IN  /\ resp = NoResp
      /\ IF wm = << >>
           THEN /\ resp' = RankRejected(batch_ids, kpi, top_n, weights)
                /\ cache' = cache
           ELSE /\ resp' = RankAnswered(batch_ids, kpi, top_n, weights, wm[1], result)
                /\ cache' = result.cache
      /\ UNCHANGED <<batches, files, blocks, flags, tasks>>

(***************************************************************************)
(* Comparison: compare.py compare_institutions                             *)
(***************************************************************************)
\* `a or b` on Optional numbers: None and 0 are falsy
Or2(a, b) == IF a # None /\ a # Some(0) THEN a ELSE b

\* lines 517-526: the dashboard value of a canonical key, through its aliases
DisplayValue(kpis, key) ==
  CASE key = "fsr_score" -> Or2(DictGet(kpis, "fsr_score"), DictGet(kpis, "fsr"))
    [] key = "infrastructure_score" ->
         Or2(DictGet(kpis, "infrastructure_score"), DictGet(kpis, "infrastructure"))
    [] key = "placement_index" ->
         Or2(DictGet(kpis, "placement_index"), DictGet(kpis, "placement_rate_num"))
    [] key = "lab_compliance_index" ->
         Or2(DictGet(kpis, "lab_compliance_index"), DictGet(kpis, "lab_compliance"))
    [] key = "overall_score" -> DictGet(kpis, "overall_score")

\* lines 514-532: only numbers > 0 are kept
KpiMapOf(kpis) ==
  [key \in KpiKeys |->
     LET val == DisplayValue(kpis, key)
     IN  IF val # None /\ val[1] > 0 THEN val ELSE None]

_has_valid_kpis(kpi_map) ==
  \E k \in DOMAIN kpi_map : kpi_map[k] # None /\ kpi_map[k][1] > 0

\* generate_short_label(name, batch_id, year): one label per submission
ShortLabel(batch_id) == batch_id

\* a score as a fraction num / den, den > 0 (the mean of line 560 need not be whole)
Frac(num, den) == [num |-> num, den |-> den]

FracLess(a, b) == a.num * b.den < b.num * a.den

\* lines 557-560
OverallOf(kpi_map) ==
  LET valid == {k \in DOMAIN kpi_map : kpi_map[k] # None}
  IN  IF kpi_map["overall_score"] # None /\ kpi_map["overall_score"] # Some(0)
        THEN Frac(kpi_map["overall_score"][1], 1)
      ELSE IF valid = {} THEN Frac(0, 1)
      ELSE Frac(SumOver([k \in valid |-> kpi_map[k][1]], valid), Cardinality(valid))

\* lines 108-124, without the block-data lookup: the dashboard name when
\* longer than 3 characters, else the generated fallback
_get_real_institution_name(dashboard, batch_id) ==
  IF Len(dashboard.institution_name) > 3 THEN dashboard.institution_name
  ELSE "Institution #" \o batch_id

\* lines 568-580
InstitutionComparison(batch_id, dashboard) ==
  [batch_id |-> batch_id,
   institution_name |-> _get_real_institution_name(dashboard, batch_id),
   short_label |-> ShortLabel(batch_id),
   kpis |-> KpiMapOf(dashboard.kpis),
   sufficiency_percent |-> dashboard.sufficiency,
   compliance_count |-> dashboard.compliance_flags,
   overall_score |-> OverallOf(KpiMapOf(dashboard.kpis))]

Skipped(batch_id, reason) == [batch_id |-> batch_id, reason |-> reason]

\* lines 489-587: the loop over ids; crashed when a dashboard read raised
\* something other than an HTTPException
RECURSIVE CompareLoop(_, _, _)
CompareLoop(db, ids, acc) ==
  IF ids = << >> THEN acc
  ELSE
    LET bid == Head(ids)
        guard == ValidateIn(db.batches, db.files, db.blocks, bid)
        seen == IF db.batches[bid].department_name # ""
                  THEN CacheSet(acc.departments_seen, bid, db.batches[bid].department_name)
                  ELSE acc.departments_seen
        out == get_dashboard_data(db, acc.cache, bid, DependsDefault)
        inst == InstitutionComparison(bid, out.dash)
    IN  IF ~guard.is_valid
          THEN CompareLoop(db, Tail(ids),
                 [acc EXCEPT !.skipped_batches = Append(@, Skipped(bid, guard.reason))])
        ELSE IF out.kind = "crash"
          THEN [acc EXCEPT !.departments_seen = seen, !.crashed = TRUE]
        ELSE IF out.kind # "ok"
          THEN CompareLoop(db, Tail(ids),
                 [acc EXCEPT !.departments_seen = seen,
                             !.skipped_batches = Append(@, Skipped(bid, "missing_dashboard"))])
        ELSE IF ~_has_valid_kpis(inst.kpis)
          THEN CompareLoop(db, Tail(ids),
                 [acc EXCEPT !.departments_seen = seen, !.cache = out.cache,
                             !.skipped_batches = Append(@, Skipped(bid, "no_valid_kpis"))])
        ELSE CompareLoop(db, Tail(ids),
               [acc EXCEPT !.departments_seen = seen, !.cache = out.cache,
                           !.valid_institutions = Append(@, inst)])

\* lines 583-587: metric -> label -> value, a later institution overwriting
\* an earlier one of the same label
MatrixOf(insts) ==
  LET labels == {insts[i].short_label : i \in 1..Len(insts)}
      last(l) == CHOOSE i \in 1..Len(insts) :
                   /\ insts[i].short_label = l
                   /\ \A j \in 1..Len(insts) : insts[j].short_label = l => j <= i
  IN  IF insts = << >> THEN [k \in {} |-> None]
      ELSE [k \in KpiKeys |-> [l \in labels |-> insts[last(l)].kpis[k]]]

\* line 612: list.sort(key=overall_score, reverse=True), stable
RECURSIVE InsertByOverall(_, _)
InsertByOverall(sorted, x) ==
  IF sorted = << >> THEN <<x>>
  ELSE IF ~FracLess(Head(sorted).overall_score, x.overall_score)
    THEN <<Head(sorted)>> \o InsertByOverall(Tail(sorted), x)
    ELSE <<x>> \o sorted

RECURSIVE SortByOverall(_)
SortByOverall(list) ==
  IF list = << >> THEN << >>
  ELSE InsertByOverall(SortByOverall(SubSeq(list, 1, Len(list) - 1)), list[Len(list)])

\* lines 167-172: (overall, placement, sufficiency, -compliance)
sort_key(inst) ==
  [overall |-> inst.overall_score,
   placement |-> IF inst.kpis["placement_index"] = None THEN 0
                 ELSE inst.kpis["placement_index"][1],
   sufficiency |-> inst.sufficiency_percent,
   compliance |-> 0 - inst.compliance_count]

\* tuple comparison a < b
KeyLess(a, b) ==
  \/ FracLess(a.overall, b.overall)
  \/ /\ ~FracLess(b.overall, a.overall)
     /\ \/ a.placement < b.placement
        \/ /\ a.placement = b.placement
           /\ \/ a.sufficiency < b.sufficiency
              \/ a.sufficiency = b.sufficiency /\ a.compliance < b.compliance

\* variant: the first institution of the list sorted by overall score alone
_determine_winner_FirstByOverall(institutions) == institutions[1]

\* lines 160-175: sorted(institutions, key=sort_key, reverse=True)[0], the
\* first of the institutions with the greatest key
_determine_winner(institutions) ==
  LET best == {i \in 1..Len(institutions) :
                 \A j \in 1..Len(institutions) :
                   ~KeyLess(sort_key(institutions[i]), sort_key(institutions[j]))}
      first == CHOOSE i \in best : \A j \in best : i <= j
  IN  institutions[first]

\* variant: a scan that never records an equal value
RECURSIVE CategoryScan_NoTies(_, _, _)
CategoryScan_NoTies(insts, kpi_key, best) ==
  IF insts = << >> THEN best
  ELSE
    LET inst == Head(insts)
        val == inst.kpis[kpi_key]
    IN  IF val = None THEN CategoryScan_NoTies(Tail(insts), kpi_key, best)
        ELSE IF best.best_val = None \/ val[1] > best.best_val[1]
          THEN CategoryScan_NoTies(Tail(insts), kpi_key,
                 [best_val |-> val, best_bid |-> inst.batch_id,
                  best_label |-> inst.short_label, tied_labels |-> << >>])
        ELSE CategoryScan_NoTies(Tail(insts), kpi_key, best)

\* lines 626-641: the scan of one metric
RECURSIVE CategoryScan(_, _, _)
CategoryScan(insts, kpi_key, best) ==
  IF insts = << >> THEN best
  ELSE
    LET inst == Head(insts)
        val == inst.kpis[kpi_key]
    IN  IF val = None THEN CategoryScan(Tail(insts), kpi_key, best)
        ELSE IF best.best_val = None \/ val[1] > best.best_val[1]
          THEN CategoryScan(Tail(insts), kpi_key,
                 [best_val |-> val, best_bid |-> inst.batch_id,
                  best_label |-> inst.short_label, tied_labels |-> << >>])
        ELSE IF val = best.best_val
          THEN CategoryScan(Tail(insts), kpi_key,
                 [best EXCEPT !.tied_labels = Append(@, inst.short_label)])
        ELSE CategoryScan(Tail(insts), kpi_key, best)

NoBest == [best_val |-> None, best_bid |-> "", best_label |-> "", tied_labels |-> << >>]

\* lines 647-655
CategoryWinner(kpi_key, best) ==
  [kpi_key |-> kpi_key, winner_batch_id |-> best.best_bid,
   winner_label |-> best.best_label, winner_value |-> best.best_val[1],
   is_tie |-> Len(best.tied_labels) > 0, tied_with |-> best.tied_labels]

\* lines 625-655: one record per metric that has a present value, in
\* CANONICAL_KPIS order
RECURSIVE CategoryWinners(_, _)
CategoryWinners(insts, n) ==
  IF n > Len(CANONICAL_KPIS) THEN << >>
  ELSE
    LET best == CategoryScan(insts, CANONICAL_KPIS[n], NoBest)
    IN  IF best.best_bid # "" /\ best.best_val # None
          THEN <<CategoryWinner(CANONICAL_KPIS[n], best)>> \o CategoryWinners(insts, n + 1)
          ELSE CategoryWinners(insts, n + 1)

NoMessage == [kind |-> "none", departments |-> {}, valid_count |-> 0, skipped_count |-> 0]

\* lines 593-599 and 603-609: a result without winners
InvalidResponse(acc, message) ==
  [institutions |-> acc.valid_institutions,
   skipped_batches |-> acc.skipped_batches,
   comparison_matrix |-> MatrixOf(acc.valid_institutions),
   winner_institution |-> None, winner_label |-> None, winner_name |-> None,
   category_winners |-> [k \in {} |-> ""],
   category_winners_labels |-> [k \in {} |-> ""],
   interpretation |-> [best_overall_batch_id |-> "", category_winners |-> << >>],
   valid_for_comparison |-> FALSE,
   validation_message |-> message]

\* lines 611-687
ValidResponse(acc) ==
  LET insts == SortByOverall(acc.valid_institutions)
      winner == _determine_winner(insts)
      details == CategoryWinners(insts, 1)
      keys == {details[i].kpi_key : i \in 1..Len(details)}
      detail(k) == details[CHOOSE i \in 1..Len(details) : details[i].kpi_key = k]
  IN  [institutions |-> insts,
       skipped_batches |-> acc.skipped_batches,
       comparison_matrix |-> MatrixOf(acc.valid_institutions),
       winner_institution |-> Some(winner.batch_id),
       winner_label |-> Some(winner.short_label),
       winner_name |-> Some(winner.institution_name),
       category_winners |-> [k \in keys |-> detail(k).winner_batch_id],
       category_winners_labels |-> [k \in keys |-> detail(k).winner_label],
       interpretation |-> [best_overall_batch_id |-> winner.batch_id,
                           category_winners |-> details],
       valid_for_comparison |-> TRUE,
       validation_message |-> NoMessage]

\* one of the two hard-coded demo institutions (lines 390-429), values in tenths
DemoInstitution(batch_id, name, label, fsr, infra, placement, lab, overall, suff, flagged) ==
  [batch_id |-> batch_id, institution_name |-> name, short_label |-> label,
   kpis |-> ("fsr_score" :> Some(fsr)) @@ ("infrastructure_score" :> Some(infra))
              @@ ("placement_index" :> Some(placement))
              @@ ("lab_compliance_index" :> Some(lab)) @@ ("overall_score" :> Some(overall)),
   sufficiency_percent |-> suff, compliance_count |-> flagged,
   overall_score |-> Frac(overall, 1)]

DemoCategoryWinner(kpi_key, batch_id, label, value) ==
  [kpi_key |-> kpi_key, winner_batch_id |-> batch_id, winner_label |-> label,
   winner_value |-> value, is_tie |-> FALSE, tied_with |-> << >>]

\* lines 389-473: the answer to any request that names a demo id
DemoResponse ==
  LET a == DemoInstitution("demo-batch-aicte-2024", "Indian Institute of Technology Delhi",
                           "IIT-D 24-25", 852, 785, 923, 821, 845, 950, 0)
      b == DemoInstitution("demo-batch-aicte-2023", "National Institute of Technology Trichy",
                           "NIT-T 24-25", 789, 820, 885, 753, 812, 900, 1)
  IN  [institutions |-> <<a, b>>,
       skipped_batches |-> << >>,
       comparison_matrix |-> MatrixOf(<<a, b>>),
       winner_institution |-> Some(a.batch_id), winner_label |-> Some(a.short_label),
       winner_name |-> Some(a.institution_name),
       category_winners |->
         [k \in KpiKeys |-> IF k = "infrastructure_score" THEN b.batch_id ELSE a.batch_id],
       category_winners_labels |->
         [k \in KpiKeys |-> IF k = "infrastructure_score" THEN b.short_label ELSE a.short_label],
       interpretation |->
         [best_overall_batch_id |-> a.batch_id,
          category_winners |->
            <<DemoCategoryWinner("overall_score", a.batch_id, a.short_label, 845),
              DemoCategoryWinner("placement_index", a.batch_id, a.short_label, 923),
              DemoCategoryWinner("infrastructure_score", b.batch_id, b.short_label, 820)>>],
       valid_for_comparison |-> TRUE,
       validation_message |-> NoMessage]

NoAcc(ch) ==
  [valid_institutions |-> << >>, skipped_batches |-> << >>,
   departments_seen |-> [b \in {} |-> ""], cache |-> ch, crashed |-> FALSE]

\* the body of an answer that carries no ComparisonResponse
NoBody == InvalidResponse(NoAcc(EmptyCache), NoMessage)

\* compare_institutions (lines 356-691): status code, where the body came
\* from, the body and the cache after the call
compare_institutions(db, ch, ids) ==
  LET has_demo == \E i \in 1..Len(ids) : IsDemo(ids[i])
      cache_key == get_cache_key("compare", ids)
      acc == CompareLoop(db, ids, NoAcc(ch))
      unique_departments ==
        {acc.departments_seen[b] : b \in DOMAIN acc.departments_seen}
      result == ValidResponse(acc)
  IN  IF ~has_demo /\ CacheHit(ch, cache_key)
        THEN [code |-> 200, source |-> "cache", body |-> ch[cache_key], cache |-> ch]
      ELSE IF has_demo
        THEN [code |-> 200, source |-> "demo", body |-> DemoResponse, cache |-> ch]
      ELSE IF Len(ids) < 2 \/ Len(ids) > 10
        THEN [code |-> 400, source |-> "none", body |-> NoBody, cache |-> ch]
      ELSE IF acc.crashed
        THEN [code |-> 500, source |-> "none", body |-> NoBody, cache |-> acc.cache]
      ELSE IF Cardinality(unique_departments) > 1
        THEN [code |-> 200, source |-> "computed",
              body |-> InvalidResponse(acc,
                         [kind |-> "cross_department", departments |-> unique_departments,
                          valid_count |-> 0, skipped_count |-> 0]),
              cache |-> acc.cache]
      ELSE IF Len(acc.valid_institutions) < 2
        THEN [code |-> 200, source |-> "computed",
              body |-> InvalidResponse(acc,
                         [kind |-> "too_few", departments |-> {},
                          valid_count |-> Len(acc.valid_institutions),
                          skipped_count |-> Len(acc.skipped_batches)]),
              cache |-> acc.cache]
      ELSE [code |-> 200, source |-> "computed", body |-> result,
            cache |-> CacheSet(acc.cache, cache_key, result)]

\* GET /compare
Compare(ids) ==
  LET out == compare_institutions(Db, cache, ids)
  IN  /\ resp = NoResp
      /\ resp' = [op |-> "compare", batch_ids |-> ids, code |-> out.code,
                  source |-> out.source, body |-> out.body]
      /\ cache' = out.cache
      /\ UNCHANGED <<batches, files, blocks, flags, tasks>>

(***************************************************************************)
(* Stores                                                                  *)
(***************************************************************************)
\* one kpi_results entry
Entry(key, shape, v) == [key |-> key, shape |-> shape, v |-> v]

\* the stored forms of one KPI: absent, bare number, {value: n}, {value: null}, other
RawForms(key) ==
  {<< >>}
    \cup {<<Entry(key, "num", Some(n))>> : n \in 0..MaxVal}
    \cup {<<Entry(key, "rec", Some(n))>> : n \in 0..MaxVal}
    \cup {<<Entry(key, "rec", None)>>, <<Entry(key, "other", None)>>}

Batch(status, is_invalid, data_source, department_name, kpi_results, sufficiency) ==
  [status |-> status, is_invalid |-> is_invalid, data_source |-> data_source,
   department_name |-> department_name, kpi_results |-> kpi_results,
   sufficiency |-> sufficiency, department_id |-> "d1", user_id |-> "u1",
   institution_name |-> "", academic_year |-> ""]

NoRows == [b \in BatchIds |-> 0]

NoBlocks == [b \in BatchIds |-> [valid |-> 0, invalid |-> 0, years |-> 0]]

\* guard inputs: submission b1 in every combination of the fields the guard reads
InitGuard ==
  /\ \/ batches = [b \in {} |-> None]
     \/ \E st \in Statuses, inv \in {0, 1}, src \in {"user", "system"},
           ov \in RawForms("overall_score") :
          batches = [b \in {"b1"} |-> Batch(st, inv, src, "", ov, 0)]
  /\ \E n \in 0..1 : files = [NoRows EXCEPT !["b1"] = n]
  /\ \E v \in 0..1, i \in 0..1 :
       blocks = [NoBlocks EXCEPT !["b1"] = [valid |-> v, invalid |-> i, years |-> v]]
  /\ flags = NoRows
  /\ cache = EmptyCache
  /\ resp = NoResp
  /\ tasks = {}

NextGuard == \E b \in {"b1", "b2"} : ValidateBatch(b)

SpecGuard == InitGuard /\ [][NextGuard]_vars

\* the answer of the request in progress has been sent
Reply ==
  /\ resp # NoResp
  /\ resp' = NoResp
  /\ UNCHANGED <<batches, files, blocks, flags, cache, tasks>>

\* one submission with its documents, blocks and compliance flags
Row(present, batch, nfiles, nvalid, nflags) ==
  [present |-> present, batch |-> batch, files |-> nfiles,
   blocks |-> [valid |-> nvalid, invalid |-> 0, years |-> nvalid], flags |-> nflags]

Rows3(r1, r2, r3) == ("b1" :> r1) @@ ("b2" :> r2) @@ ("b3" :> r3)

\* the store holding the given rows, nothing cached, no request in progress
StoreIs(rows) ==
  /\ batches = [b \in {x \in BatchIds : rows[x].present} |-> rows[b].batch]
  /\ files = [b \in BatchIds |-> rows[b].files]
  /\ blocks = [b \in BatchIds |-> rows[b].blocks]
  /\ flags = [b \in BatchIds |-> rows[b].flags]
  /\ cache = EmptyCache
  /\ resp = NoResp
  /\ tasks = {}

Num(key, n) == <<Entry(key, "num", Some(n))>>

\* a seeded submission: completed, valid, system-sourced, blocks and no documents
SystemRow(kpi_results, department_name, sufficiency, nflags) ==
  Row(TRUE, Batch("completed", 0, "system", department_name, kpi_results, sufficiency),
      0, 1, nflags)

\* an uploaded submission: completed, valid, user-sourced, documents and blocks
UserRow(kpi_results, department_name, sufficiency, nflags) ==
  Row(TRUE, Batch("completed", 0, "user", department_name, kpi_results, sufficiency),
      1, 1, nflags)

GoodKpis == Num("fsr_score", 1) \o Num("overall_score", MaxVal)

\* submissions in each way of failing the guard, and two that pass it
GuardRows ==
  { Row(FALSE, Batch("completed", 0, "system", "CSE", GoodKpis, 0), 0, 0, 0),
    SystemRow(GoodKpis, "CSE", 0, 0),
    Row(TRUE, Batch("completed", 1, "system", "CSE", GoodKpis, 0), 0, 1, 0),
    Row(TRUE, Batch("processing", 0, "system", "CSE", GoodKpis, 0), 0, 1, 0),
    Row(TRUE, Batch("completed", 0, "system", "CSE", GoodKpis, 0), 0, 0, 0),
    SystemRow(Num("fsr_score", 1) \o Num("overall_score", 0), "CSE", 0, 0),
    UserRow(GoodKpis, "CSE", 0, 0),
    Row(TRUE, Batch("completed", 0, "user", "CSE", GoodKpis, 0), 0, 1, 0) }

\* seeded submissions whose fsr_score and overall_score vary
ScoreRows ==
  { SystemRow(f \o o, "CSE", 0, 0) :
      f \in {<< >>} \cup {Num("fsr_score", n) : n \in 0..MaxVal},
      o \in {<< >>, Num("overall_score", MaxVal)} }

ScoreRows2 ==
  { SystemRow(f \o Num("overall_score", 1), "CSE", 0, 0) :
      f \in {<< >>} \cup {Num("fsr_score", n) : n \in 0..MaxVal} }

ScoreRows3 ==
  { SystemRow(f \o Num("overall_score", 1), "CSE", 0, 0) :
      f \in {<< >>, Num("fsr_score", 1)} }

InitRank ==
  \/ \E r1 \in ScoreRows, r2 \in ScoreRows2, r3 \in ScoreRows3 : StoreIs(Rows3(r1, r2, r3))
  \/ \E r1 \in GuardRows, r2 \in GuardRows :
       StoreIs(Rows3(r1, r2, SystemRow(GoodKpis, "CSE", 0, 0)))

\* id lists without repetition
IdLists(n) ==
  {ids \in [1..n -> BatchIds] : \A i, j \in 1..n : i # j => ids[i] # ids[j]}

TopNs == {1, 3}

\* the weights JSON of a request: fsr in -1..MaxWeight, overall in 0..MaxWeight,
\* placement 0 or 1
WeightJsons ==
  { JsonWeights(("fsr" :> f) @@ ("overall" :> o) @@ ("placement" :> p)) :
      f \in (0 - 1)..MaxWeight, o \in 0..MaxWeight, p \in 0..1 }

HttpUsers == {NoUser, UserDict("u1", "department", "d1"), UserDict("u2", "department", "d2")}

NextRank ==
  \/ \E n \in 0..3 : \E ids \in IdLists(n) :
       \E kpi \in {"fsr", "overall", "placement", "bogus"}, top_n \in TopNs :
         RankTop(ids, kpi, top_n, NoWeights)
  \/ \E ids \in IdLists(3) :
       \E w \in WeightJsons \cup {NoWeights, BadJson} : RankTop(ids, "all", 3, w)
  \/ \E b \in BatchIds, u \in HttpUsers : GetDashboard(b, u)
  \/ CacheExpire
  \/ Reply

SpecRank == InitRank /\ [][NextRank]_vars

\* submissions for comparison: absent, eligible with and without a
\* department name, and rejected by the guard
CompareRows ==
  { Row(FALSE, Batch("completed", 0, "system", "CSE", GoodKpis, 0), 0, 0, 0),
    SystemRow(GoodKpis, "CSE", 0, 0),
    SystemRow(GoodKpis, "ECE", 0, 0),
    SystemRow(GoodKpis, "", 0, 0),
    Row(TRUE, Batch("completed", 1, "system", "ECE", GoodKpis, 0), 0, 1, 0),
    UserRow(GoodKpis, "CSE", 0, 0) }

CompareRows3 ==
  { SystemRow(GoodKpis, "CSE", 0, 0), UserRow(GoodKpis, "CSE", 0, 0) }

InitCompare ==
  \E r1 \in CompareRows, r2 \in CompareRows, r3 \in CompareRows3 :
    StoreIs(Rows3(r1, r2, r3))

\* requests that name a demo id
DemoLists == {<<DemoId>>, <<"b1", DemoId>>, <<DemoId, "b1", "b2">>}

\* a request naming one submission eleven times (more than the 10 of line 479)
TooManyIds == [i \in 1..11 |-> "b1"]

NextCompare ==
  \/ \E n \in 0..3 : \E ids \in IdLists(n) \cup DemoLists \cup {TooManyIds} : Compare(ids)
  \/ \E b \in BatchIds \cup {DemoId}, u \in {NoUser, UserDict("u2", "department", "d2")} :
       GetDashboard(b, u)
  \/ CacheExpire
  \/ Reply

SpecCompare == InitCompare /\ [][NextCompare]_vars

\* eligible seeded submissions of one department whose tie-break keys vary
WinnerRows ==
  { SystemRow(Num("fsr_score", 1) \o p \o Num("overall_score", o), "CSE", sf, fl) :
      p \in {<< >>} \cup {Num("placement_index", n) : n \in 1..MaxVal},
      o \in 1..MaxVal, sf \in 0..1, fl \in 0..1 }

WinnerRows3 ==
  { SystemRow(Num("fsr_score", 1) \o p \o Num("overall_score", MaxVal), "CSE", 0, fl) :
      p \in {<< >>} \cup {Num("placement_index", n) : n \in 1..MaxVal}, fl \in 0..1 }

InitWinner ==
  \E r1 \in WinnerRows, r2 \in WinnerRows, r3 \in WinnerRows3 : StoreIs(Rows3(r1, r2, r3))

NextWinner ==
  \/ \E ids \in IdLists(3) \cup {<<DemoId>>} : Compare(ids)
  \/ Reply

SpecWinner == InitWinner /\ [][NextWinner]_vars

\* seeded submissions whose fsr_score and overall_score are absent, stored
\* as 0 (bare or in a record) or positive
ZeroRows ==
  { SystemRow(f \o o, "CSE", 0, 0) :
      f \in {<< >>, Num("fsr_score", 0), <<Entry("fsr_score", "rec", Some(0))>>,
             Num("fsr_score", 1)},
      o \in {<< >>, Num("overall_score", 0), Num("overall_score", MaxVal)} }

InitZero ==
  \E r1 \in ZeroRows, r2 \in ZeroRows :
    StoreIs(Rows3(r1, r2, SystemRow(GoodKpis, "CSE", 0, 0)))

NextZero ==
  \/ \E ids \in IdLists(3), kpi \in {"fsr", "overall"} : RankTop(ids, kpi, 3, NoWeights)
  \/ \E ids \in IdLists(3) : Compare(ids)
  \/ Reply

SpecZero == InitZero /\ [][NextZero]_vars

(***************************************************************************)
(* C1: the guard reports the reason code of the first failing check in    *)
(* the order not found, invalid, status, documents (user-sourced only),   *)
(* blocks, overall score; a submission failing no check is eligible.      *)
(***************************************************************************)
C1_Failing(b) ==
  LET ov == get_kpi_value(batches[b].kpi_results, "overall_score")
  IN  <<b \notin DOMAIN batches,
        b \in DOMAIN batches /\ batches[b].is_invalid = 1,
        b \in DOMAIN batches /\ batches[b].status # "completed",
        b \in DOMAIN batches /\ batches[b].data_source # "system" /\ files[b] = 0,
        b \in DOMAIN batches /\ blocks[b].valid = 0,
        b \in DOMAIN batches /\ (ov = None \/ ov = Some(0))>>

C1_Code(b) ==
  <<"batch_not_found", "batch_invalid",
    IF b \in DOMAIN batches THEN "status_" \o batches[b].status ELSE "status_",
    "no_processed_documents", "no_valid_blocks", "no_valid_kpis">>

C1_GuardOrder ==
  resp.op = "validate" =>
    LET b == resp.batch_id
        failing == {i \in 1..6 : C1_Failing(b)[i]}
    IN  /\ failing = {} => resp.is_valid /\ resp.reason = NoReason
        /\ failing # {} =>
             /\ ~resp.is_valid
             /\ \E i \in failing :
                  /\ \A j \in failing : i <= j
                  /\ resp.reason = C1_Code(b)[i]

\* a system-sourced submission with blocks and no documents passes the guard
C1_Witness ==
  /\ resp.op = "validate"
  /\ resp.batch_id \in DOMAIN batches
  /\ batches[resp.batch_id].data_source = "system"
  /\ files[resp.batch_id] = 0
  /\ resp.is_valid

\* several checks fail at once and the earliest is reported
C1_WitnessOrder ==
  /\ resp.op = "validate"
  /\ resp.batch_id \in DOMAIN batches
  /\ batches[resp.batch_id].status = "processing"
  /\ files[resp.batch_id] = 0
  /\ blocks[resp.batch_id].valid = 0
  /\ resp.reason = "status_processing"

(***************************************************************************)
(* Claims about ranking                                                    *)
(***************************************************************************)
RankAnswer == resp.op = "rank" /\ resp.invoked

Abs(x) == IF x < 0 THEN 0 - x ELSE x

\* the stored value of metric k of submission b, read from the store
StoredValue(b, k) == get_kpi_value(batches[b].kpi_results, k)

\* C2: for a rank request of total weight > 0 the ranked list is ordered
\* non-increasing by ranking_score.
C2_RankSorted ==
  (RankAnswer /\ TotalWeight(resp.weight_map) > 0) =>
    \A i, j \in 1..Len(resp.institutions) :
      i < j => resp.institutions[i].ranking_score >= resp.institutions[j].ranking_score

\* the sort moved a later id in front of an earlier one
C2_Witness ==
  /\ RankAnswer
  /\ TotalWeight(resp.weight_map) > 0
  /\ Len(resp.institutions) = 3
  /\ resp.institutions[1].batch_id = resp.batch_ids[3]
  /\ resp.institutions[1].ranking_score > resp.institutions[3].ranking_score

C4_GuardApplied ==
  RankAnswer =>
    \A n \in 1..Len(resp.batch_ids) :
      LET b == resp.batch_ids[n]
      IN  ~_validate_batch(b).is_valid =>
            /\ \A i \in 1..Len(resp.institutions) : resp.institutions[i].batch_id # b
            /\ \E i \in 1..Len(resp.insufficient_batches) :
                 resp.insufficient_batches[i].batch_id = b

\* C6: a rank request whose configured weights sum to 0 is answered 400 and
\* rank_institutions is never called with a weight map of total 0.
C6_ZeroTotalRejected ==
  resp.op = "rank" =>
    /\ resp.invoked => TotalWeight(resp.weight_map) # 0
    /\ (resp.kpi = "all" /\ resp.weights.kind = "json"
          /\ TotalWeight(WeightsFromJson(resp.weights.parsed)) = 0)
         => resp.code = 400 /\ ~resp.invoked

(***************************************************************************)
(* Claims about comparison                                                 *)
(***************************************************************************)
\* a ComparisonResponse was returned
CompareResult == resp.op = "compare" /\ resp.code = 200

\* the requested submissions that pass the guard
EligibleAt(ids) == {i \in 1..Len(ids) : _validate_batch(ids[i]).is_valid}

NoWinners(body) ==
  /\ body.winner_institution = None
  /\ body.winner_label = None
  /\ body.winner_name = None
  /\ DOMAIN body.category_winners = {}
  /\ body.interpretation.category_winners = << >>

\* C7: with fewer than 2 eligible submissions among the requested ones, a
\* returned comparison has valid_for_comparison = false and no winner of any
\* kind.
C7_FewEligibleInvalid ==
  (CompareResult /\ Cardinality(EligibleAt(resp.batch_ids)) < 2) =>
    /\ ~resp.body.valid_for_comparison
    /\ NoWinners(resp.body)

\* C8: when the eligible submissions of the request carry two or more
\* distinct non-empty department names, a returned comparison is invalid,
\* names no winner and its message lists every one of those names.
C8_CrossDepartmentInvalid ==
  LET names == {batches[resp.batch_ids[i]].department_name :
                  i \in EligibleAt(resp.batch_ids)} \ {""}
  IN  (CompareResult /\ Cardinality(names) >= 2) =>
        /\ ~resp.body.valid_for_comparison
        /\ NoWinners(resp.body)
        /\ resp.body.validation_message.departments = names

\* strictly better under (overall desc, placement desc, sufficiency desc,
\* compliance asc); an absent placement_index ranks below every present one
C9_Placement(inst) ==
  IF inst.kpis["placement_index"] = None THEN 0 ELSE inst.kpis["placement_index"][1]

C9_Better(a, b) ==
  LET oa == a.overall_score.num * b.overall_score.den
      ob == b.overall_score.num * a.overall_score.den
  IN  \/ oa > ob
      \/ oa = ob /\ C9_Placement(a) > C9_Placement(b)
      \/ oa = ob /\ C9_Placement(a) = C9_Placement(b)
           /\ a.sufficiency_percent > b.sufficiency_percent
      \/ oa = ob /\ C9_Placement(a) = C9_Placement(b)
           /\ a.sufficiency_percent = b.sufficiency_percent
           /\ a.compliance_count < b.compliance_count

\* C9: in every valid comparison the global winner is one of the returned
\* institutions and no returned institution is strictly better than it under
\* the chain overall, placement, sufficiency (descending), compliance (ascending).
C9_WinnerMaximal ==
  (CompareResult /\ resp.body.valid_for_comparison) =>
    LET insts == resp.body.institutions
    IN  \E w \in 1..Len(insts) :
          /\ resp.body.winner_institution = Some(insts[w].batch_id)
          /\ resp.body.winner_label = Some(insts[w].short_label)
          /\ \A j \in 1..Len(insts) : ~C9_Better(insts[j], insts[w])

\* the winner is decided by the last key of the chain and is not the first
\* institution of the returned list
C9_Witness ==
  /\ CompareResult
  /\ resp.source = "computed"
  /\ resp.body.valid_for_comparison
  /\ resp.body.winner_institution # Some(resp.body.institutions[1].batch_id)
  /\ \E j \in 1..Len(resp.body.institutions) :
       LET a == resp.body.institutions[j]
           b == resp.body.institutions[1]
       IN  /\ resp.body.winner_institution = Some(a.batch_id)
           /\ a.overall_score = b.overall_score
           /\ C9_Placement(a) = C9_Placement(b)
           /\ a.sufficiency_percent = b.sufficiency_percent
           /\ a.compliance_count < b.compliance_count

\* the institutions of a valid comparison that hold the maximum of metric k
C10_AtMax(insts, k) ==
  {i \in 1..Len(insts) :
     /\ insts[i].kpis[k] # None
     /\ \A j \in 1..Len(insts) :
          insts[j].kpis[k] # None => insts[j].kpis[k][1] <= insts[i].kpis[k][1]}

C10_Record(body, k) ==
  {body.interpretation.category_winners[n] :
     n \in {m \in 1..Len(body.interpretation.category_winners) :
              body.interpretation.category_winners[m].kpi_key = k}}

\* C10 as stated: when two institutions share the maximum of a metric, the
\* metric's record has is_tie = true and both labels are in tied_with.
C10_BothInTiedWith ==
  (CompareResult /\ resp.body.valid_for_comparison) =>
    \A k \in KpiKeys :
      LET insts == resp.body.institutions
          top == C10_AtMax(insts, k)
      IN  Cardinality(top) >= 2 =>
            \E r \in C10_Record(resp.body, k) :
              /\ r.is_tie
              /\ \A i \in top :
                   \E n \in 1..Len(r.tied_with) : r.tied_with[n] = insts[i].short_label

\* C10 (amended): in a valid comparison, when two institutions share the
\* maximum of a metric, the metric's record has is_tie = true, one of the two
\* is the winner (winner_label) and the other appears in tied_with; every
\* institution at the maximum is the winner or in tied_with.
C10_TieRecorded ==
  (CompareResult /\ resp.body.valid_for_comparison) =>
    \A k \in KpiKeys :
      LET insts == resp.body.institutions
          top == C10_AtMax(insts, k)
      IN  Cardinality(top) >= 2 =>
            \E r \in C10_Record(resp.body, k) :
              /\ r.is_tie
              /\ \E i \in top : r.winner_label = insts[i].short_label
              /\ \A i \in top :
                   \/ r.winner_label = insts[i].short_label
                   \/ \E n \in 1..Len(r.tied_with) : r.tied_with[n] = insts[i].short_label

\* two institutions tie at the maximum of placement_index above a third one
C10_Witness ==
  /\ CompareResult
  /\ resp.source = "computed"
  /\ resp.body.valid_for_comparison
  /\ Cardinality(C10_AtMax(resp.body.institutions, "placement_index")) = 2
  /\ \E i \in 1..Len(resp.body.institutions) :
       /\ resp.body.institutions[i].kpis["placement_index"] # None
       /\ i \notin C10_AtMax(resp.body.institutions, "placement_index")
       /\ i < 3

(***************************************************************************)
(* C5: a KPI stored as exactly 0 gives the same outcome as the KPI absent  *)
(***************************************************************************)
\* kpi_results without the entries whose value is 0
C5_WithoutZeros(kpi_results) == SelectSeq(kpi_results, LAMBDA e : e.v # Some(0))

\* the store in which every KPI stored as 0 is absent instead
C5_Db ==
  [Db EXCEPT !.batches =
     [b \in DOMAIN batches |->
        [batches[b] EXCEPT !.kpi_results = C5_WithoutZeros(@)]]]

\* the dashboards cached so far, as they would have been cached over C5_Db
C5_Cache ==
  LET keys == {k \in DOMAIN cache : k.op = "dashboard"}
  IN  [k \in keys |-> DashboardOf(C5_Db, CHOOSE b \in DOMAIN k.ids : TRUE)]

\* rank answers as it would with the zeros absent
C5_RankSame ==
  RankAnswer =>
    LET alt == rank_institutions(C5_Db, C5_Cache, resp.batch_ids, resp.weight_map,
                                 resp.top_n)
    IN  /\ resp.institutions = alt.institutions
        /\ resp.insufficient_batches = alt.insufficient_batches

\* compare answers as it would with the zeros absent
C5_CompareSame ==
  (resp.op = "compare" /\ resp.source = "computed") =>
    LET alt == compare_institutions(C5_Db, C5_Cache, resp.batch_ids)
    IN  resp.code = alt.code /\ resp.body = alt.body

\* C5: in both rank and compare a submission whose stored KPI is exactly 0
\* has the outcome (list membership, score, per-metric values, winners) of
\* the same submission with that KPI absent.
C5_ZeroAsAbsent == C5_RankSame /\ C5_CompareSame

(***************************************************************************)
(* Stored shapes of a KPI                                                  *)
(***************************************************************************)
\* one submission whose fsr_score and overall_score are stored in every form
ShapeRows ==
  { Row(TRUE, Batch("completed", 0, src, "CSE", f \o o, 0), 1, 1, 0) :
      src \in {"user", "system"},
      f \in RawForms("fsr_score"), o \in RawForms("overall_score") }

InitShape ==
  \E r1 \in ShapeRows :
    StoreIs(Rows3(r1, SystemRow(GoodKpis, "CSE", 0, 0),
                  Row(FALSE, Batch("completed", 0, "system", "CSE", GoodKpis, 0), 0, 0, 0)))

NextShape ==
  \/ \E b \in BatchIds : ValidateBatch(b)
  \/ \E b \in BatchIds : GetDashboard(b, NoUser)
  \/ Reply

SpecShape == InitShape /\ [][NextShape]_vars

(***************************************************************************)
(* C11: record {value: x} and bare number x read alike                     *)
(***************************************************************************)
\* kpi_results with every record {value: n} stored as the bare number n
C11_AsBare(kpi_results) ==
  [i \in 1..Len(kpi_results) |->
     IF kpi_results[i].shape = "rec" /\ kpi_results[i].v # None
       THEN Entry(kpi_results[i].key, "num", kpi_results[i].v)
       ELSE kpi_results[i]]

\* kpi_results with every bare number n stored as the record {value: n}
C11_AsRecord(kpi_results) ==
  [i \in 1..Len(kpi_results) |->
     IF kpi_results[i].shape = "num"
       THEN Entry(kpi_results[i].key, "rec", kpi_results[i].v)
       ELSE kpi_results[i]]

\* the store with submission b re-stored by f
C11_Restored(b, f(_)) == [batches EXCEPT ![b].kpi_results = f(@)]

\* C11: the eligibility check (its overall_score, hence its verdict and reason)
\* and the dashboard's kpis map are the same whether the submission's KPIs
\* are stored as records {value: x} or as bare numbers x.
C11_ShapeIndependent ==
  /\ \A b \in DOMAIN batches :
       get_kpi_value(C11_AsBare(batches[b].kpi_results), "overall_score")
         = get_kpi_value(C11_AsRecord(batches[b].kpi_results), "overall_score")
  /\ (resp.op = "validate" /\ resp.batch_id \in DOMAIN batches) =>
       /\ ValidateIn(C11_Restored(resp.batch_id, C11_AsBare), files, blocks, resp.batch_id)
            = [is_valid |-> resp.is_valid, reason |-> resp.reason]
       /\ ValidateIn(C11_Restored(resp.batch_id, C11_AsRecord), files, blocks, resp.batch_id)
            = [is_valid |-> resp.is_valid, reason |-> resp.reason]
  /\ (resp.op = "dashboard" /\ resp.kind = "ok" /\ resp.batch_id \in DOMAIN batches) =>
       /\ resp.dash.kpis = KpisMap(C11_AsBare(batches[resp.batch_id].kpi_results))
       /\ resp.dash.kpis = KpisMap(C11_AsRecord(batches[resp.batch_id].kpi_results))

\* a dashboard read of a submission holding one KPI as a record and one as a
\* bare number, both positive
C11_Witness ==
  /\ resp.op = "dashboard" /\ resp.kind = "ok" /\ resp.batch_id = "b1"
  /\ \E i, j \in 1..Len(batches["b1"].kpi_results) :
       /\ batches["b1"].kpi_results[i] = Entry("fsr_score", "rec", Some(1))
       /\ batches["b1"].kpi_results[j] = Entry("overall_score", "num", Some(MaxVal))
  /\ resp.dash.kpis["fsr_score"] = Some(1)
  /\ resp.dash.kpis["overall_score"] = Some(MaxVal)

(***************************************************************************)
(* C12: the cache does not take part in the result of compare              *)
(***************************************************************************)
\* C12: with no write to the store in between, the answer of every compare
\* request (status and ComparisonResponse) is the one computed for its id
\* list with nothing cached.
C12_CacheTransparent ==
  (resp.op = "compare") =>
    LET fresh == compare_institutions(Db, EmptyCache, resp.batch_ids)
    IN  resp.code = fresh.code /\ resp.body = fresh.body

(***************************************************************************)
(* C13: a department user never reads another department's dashboard       *)
(***************************************************************************)
\* C13: a dashboard request by a department-role user whose department_id
\* differs from that of the requested user-sourced submission is answered
\* with 403, whatever requests came before it.
C13_CrossDepartmentDenied ==
  ( /\ resp.op = "dashboard"
    /\ resp.user.kind = "dict"
    /\ resp.user.role = "department"
    /\ resp.user.department_id # ""
    /\ resp.batch_id \in DOMAIN batches
    /\ batches[resp.batch_id].data_source = "user"
    /\ batches[resp.batch_id].department_id # resp.user.department_id )
  => resp.kind = "http403"

(***************************************************************************)
(* C14: too few or too many ids are rejected                               *)
(***************************************************************************)
\* C14: a compare request with fewer than 2 or more than 10 ids is answered
\* with status 400 and no ComparisonResponse.
C14_BadLengthRejected ==
  (resp.op = "compare" /\ (Len(resp.batch_ids) < 2 \/ Len(resp.batch_ids) > 10)) =>
    resp.code = 400 /\ resp.body = NoBody

(***************************************************************************)
(* C15: one bad submission does not abort a comparison                     *)
(***************************************************************************)
\* the number of records of list whose batch_id is b
C15_Count(list, b) == Cardinality({i \in 1..Len(list) : list[i].batch_id = b})

\* C15: a compare request with 2 to 10 ids returns a ComparisonResponse in
\* which every requested id is recorded exactly once, as an institution or
\* as a skip entry with a reason.
C15_EveryIdRecorded ==
  (resp.op = "compare" /\ Len(resp.batch_ids) >= 2 /\ Len(resp.batch_ids) <= 10) =>
    /\ resp.code = 200
    /\ \A i \in 1..Len(resp.batch_ids) :
         C15_Count(resp.body.institutions, resp.batch_ids[i])
           + C15_Count(resp.body.skipped_batches, resp.batch_ids[i]) = 1
    /\ \A i \in 1..Len(resp.body.skipped_batches) :
         resp.body.skipped_batches[i].reason # ""

(***************************************************************************)
(* Trends and forecast: dashboard.py get_yearwise_trends, get_forecast     *)
(***************************************************************************)
\* "Requires minimum 3 years" of distinct academic years
MinYears == 3

\* lines 498-504 and 614-623: the other submissions of the same institution
\* and department that are valid and completed (the order by academic_year
\* is not kept: the series is a set of ids)
HistoricalBatches(db, batch_id) ==
  {b \in DOMAIN db.batches :
     /\ db.batches[b].institution_name = db.batches[batch_id].institution_name
     /\ db.batches[b].department_name = db.batches[batch_id].department_name
     /\ b # batch_id
     /\ db.batches[b].is_invalid = 0
     /\ db.batches[b].status = "completed"}

\* ProductionGuard.validate_trends_data_contract: the members that are
\* completed, valid and of the given identity, accepted when they span at
\* least MinYears distinct academic years
validate_trends_data_contract(db, all_batches, institution_name, department_name) ==
  LET valid_batches ==
        {b \in all_batches :
           /\ db.batches[b].status = "completed"
           /\ db.batches[b].is_invalid = 0
           /\ db.batches[b].institution_name = institution_name
           /\ db.batches[b].department_name = department_name}
      years == {db.batches[b].academic_year : b \in valid_batches}
  IN  [is_valid |-> Cardinality(years) >= MinYears, valid_batches |-> valid_batches]

\* services.yearwise_kpi.process_yearwise_kpis over the blocks of the given
\* submissions: a trend when they hold at least MinYears years of data
process_yearwise_kpis(db, block_list) ==
  LET years == SumOver([b \in block_list |-> db.blocks[b].years], block_list)
  IN  [insufficient_data |-> years < MinYears, has_values |-> years >= MinYears]

\* ForecastService.forecast_kpi: a projection when at least MinYears of the
\* submissions hold a value for the metric
forecast_kpi(db, valid_batches, kpi_name) ==
  LET usable == {b \in valid_batches :
                   get_kpi_value(db.batches[b].kpi_results, kpi_name) # None}
  IN  [insufficient_data |-> Cardinality(usable) < MinYears,
       has_values |-> Cardinality(usable) >= MinYears]

\* an answer of the trends or forecast endpoint: validated is the series
\* handed to the data contract, fitted the series handed to the computation
SeriesAnswer(kind, insufficient_data, has_values, validated, fitted) ==
  [kind |-> kind, insufficient_data |-> insufficient_data, has_values |-> has_values,
   validated |-> validated, fitted |-> fitted]

\* lines 479-486, 515-521, 598-603, 607-612, 631-636
InsufficientData(validated) == SeriesAnswer("ok", TRUE, FALSE, validated, {})

\* lines 422-534
get_yearwise_trends(db, batch_id, user) ==
  IF IsDemo(batch_id) THEN SeriesAnswer("demo", FALSE, TRUE, {}, {})
  ELSE IF batch_id \notin DOMAIN db.batches THEN SeriesAnswer("http404", FALSE, FALSE, {}, {})
  ELSE
    LET batch == db.batches[batch_id]
        historical_batches == HistoricalBatches(db, batch_id)
        all_batches == {batch_id} \cup historical_batches
        contract == validate_trends_data_contract(db, all_batches, batch.institution_name,
                                                  batch.department_name)
        out(block_list, validated) ==
          LET trend_results == process_yearwise_kpis(db, block_list)
          IN  SeriesAnswer("ok", trend_results.insufficient_data, trend_results.has_values,
                           validated, block_list)
    IN  IF AccessOutcome(batch, user) # "ok"
          THEN SeriesAnswer(AccessOutcome(batch, user), FALSE, FALSE, {}, {})
        ELSE IF batch.is_invalid = 1 THEN InsufficientData({})
        ELSE IF batch.institution_name # "" /\ batch.department_name # ""
          THEN IF ~contract.is_valid THEN InsufficientData(all_batches)
               ELSE out(all_batches, all_batches)
        ELSE out({batch_id}, {})

\* GET /dashboard/trends/{batch_id}
GetTrends(batch_id, user) ==
  LET out == get_yearwise_trends(Db, batch_id, user)
  IN  /\ resp = NoResp
      /\ resp' = [op |-> "trends", batch_id |-> batch_id, user |-> user, out |-> out]
      /\ UNCHANGED <<batches, files, blocks, flags, cache, tasks>>

\* lines 537-649
get_forecast(db, batch_id, kpi_name, user) ==
  IF IsDemo(batch_id) THEN SeriesAnswer("demo", FALSE, TRUE, {}, {})
  ELSE IF batch_id \notin DOMAIN db.batches THEN SeriesAnswer("http404", FALSE, FALSE, {}, {})
  ELSE
    LET batch == db.batches[batch_id]
        all_batches == {batch_id} \cup HistoricalBatches(db, batch_id)
        contract == validate_trends_data_contract(db, all_batches, batch.institution_name,
                                                  batch.department_name)
        forecast_result == forecast_kpi(db, contract.valid_batches, kpi_name)
    IN  IF AccessOutcome(batch, user) # "ok"
          THEN SeriesAnswer(AccessOutcome(batch, user), FALSE, FALSE, {}, {})
        ELSE IF batch.is_invalid = 1 THEN InsufficientData({})
        ELSE IF batch.institution_name = "" \/ batch.department_name = ""
          THEN InsufficientData({})
        ELSE IF ~contract.is_valid THEN InsufficientData(all_batches)
        ELSE SeriesAnswer("ok", forecast_result.insufficient_data,
                          forecast_result.has_values, all_batches, contract.valid_batches)

\* GET /dashboard/forecast/{batch_id}/{kpi_name}
GetForecast(batch_id, kpi_name, user) ==
  LET out == get_forecast(Db, batch_id, kpi_name, user)
  IN  /\ resp = NoResp
      /\ resp' = [op |-> "forecast", batch_id |-> batch_id, kpi_name |-> kpi_name,
                  user |-> user, out |-> out]
      /\ UNCHANGED <<batches, files, blocks, flags, cache, tasks>>

\* a submission with its identity and academic year
TrendBatch(status, is_invalid, data_source, institution_name, department_name, academic_year) ==
  [Batch(status, is_invalid, data_source, department_name, GoodKpis, 0)
     EXCEPT !.institution_name = institution_name, !.academic_year = academic_year]

\* a stored submission whose blocks hold the given number of years of data
TrendRow(batch, years) == [Row(TRUE, batch, 1, 1, 0) EXCEPT !.blocks.years = years]

\* the requested submission in every combination of the fields the two
\* endpoints read
TrendRows ==
  { TrendRow(TrendBatch(st, inv, src, inst, dept, "2022"), years) :
      st \in {"completed", "processing"}, inv \in {0, 1}, src \in {"user", "system"},
      inst \in {"", "IIT"}, dept \in {"", "CSE"}, years \in {1, MinYears} }

\* a second year of IIT/CSE: usable, invalid, unfinished, or of another department
TrendRows2 ==
  { TrendRow(TrendBatch("completed", 0, "system", "IIT", "CSE", "2023"), 1),
    TrendRow(TrendBatch("completed", 1, "system", "IIT", "CSE", "2023"), 1),
    TrendRow(TrendBatch("processing", 0, "system", "IIT", "CSE", "2023"), 1),
    TrendRow(TrendBatch("completed", 0, "system", "IIT", "ECE", "2023"), 1) }

\* a third year of IIT/CSE, a repeated year, or nothing
TrendRows3 ==
  { TrendRow(TrendBatch("completed", 0, "system", "IIT", "CSE", "2024"), 1),
    TrendRow(TrendBatch("completed", 0, "system", "IIT", "CSE", "2023"), 1),
    Row(FALSE, Batch("completed", 0, "system", "CSE", GoodKpis, 0), 0, 0, 0) }

InitTrend ==
  \E r1 \in TrendRows, r2 \in TrendRows2, r3 \in TrendRows3 : StoreIs(Rows3(r1, r2, r3))

\* no credentials, the owner's department, another department, a college
\* user and an institution user
TrendUsers ==
  { NoUser, UserDict("u1", "department", "d1"), UserDict("u2", "department", "d2"),
    UserDict("u3", "college", ""), UserDict("u4", "institution", "") }

NextTrend ==
  \/ \E b \in BatchIds \cup {DemoId}, u \in TrendUsers : GetTrends(b, u)
  \/ \E b \in BatchIds \cup {DemoId}, k \in {"overall_score", "placement_index"},
        u \in TrendUsers : GetForecast(b, k, u)
  \/ \E u \in TrendUsers : GetDashboard("b1", u)
  \/ Reply

SpecTrend == InitTrend /\ [][NextTrend]_vars

(***************************************************************************)
(* Claims about trends and forecast                                        *)
(***************************************************************************)
\* a trends or forecast request for a stored submission was answered
SeriesResult ==
  /\ resp.op \in {"trends", "forecast"}
  /\ resp.batch_id \in DOMAIN batches

\* C16: every submission in the series that trends and forecast hand to the
\* data contract and to the fit, the requested one included, is completed,
\* not marked invalid, and of the requested submission's institution and
\* department.
C16_SeriesUsable ==
  SeriesResult =>
    \A b \in resp.out.validated \cup resp.out.fitted :
      /\ batches[b].status = "completed"
      /\ batches[b].is_invalid # 1
      /\ batches[b].institution_name = batches[resp.batch_id].institution_name
      /\ batches[b].department_name = batches[resp.batch_id].department_name

\* C17: a permitted trends or forecast request for a submission without an
\* institution name or without a department name is answered with the
\* structured insufficient-data response and no trend or forecast values.
C17_MissingIdentityInsufficient ==
  ( /\ SeriesResult
    /\ AccessOutcome(batches[resp.batch_id], resp.user) = "ok"
    /\ \/ batches[resp.batch_id].institution_name = ""
       \/ batches[resp.batch_id].department_name = "" )
  => /\ resp.out.kind = "ok"
     /\ resp.out.insufficient_data
     /\ ~resp.out.has_values

(***************************************************************************)
(* C20: a college user reads every department                              *)
(***************************************************************************)
\* the outcome of a dashboard, trends or forecast request
C20_Outcome == IF resp.op = "dashboard" THEN resp.kind ELSE resp.out.kind

\* C20: a dashboard, trends or forecast request by a user whose role is
\* college, for a stored submission of any department, is not answered
\* with 403.
C20_CollegeNotDenied ==
  ( /\ resp.op \in {"dashboard", "trends", "forecast"}
    /\ resp.user.kind = "dict"
    /\ resp.user.role = "college"
    /\ resp.batch_id \in DOMAIN batches )
  => C20_Outcome # "http403"

(***************************************************************************)
(* Batch API: batches.py create_batch, update_batch, get_batch,            *)
(* list_batches, delete_batch                                              *)
(***************************************************************************)
\* the BatchCreate body: the three metadata fields ("" when not given)
BatchCreate(institution_name, department_name, academic_year) ==
  [institution_name |-> institution_name, department_name |-> department_name,
   academic_year |-> academic_year]

\* lines 60-75: the row create_batch inserts
NewBatch(batch_data, user) ==
  [Batch("created", 0, "user", batch_data.department_name, << >>, 0)
     EXCEPT !.user_id = user.uid, !.department_id = user.department_id,
            !.institution_name = batch_data.institution_name,
            !.academic_year = batch_data.academic_year]

\* variant: the new submission is inserted and no processing is scheduled
CreateBatch_NoTrigger(batch_id, batch_data, user) ==
  /\ resp = NoResp
  /\ batch_id \notin DOMAIN batches
  /\ IF batch_data.department_name = " "
       THEN /\ resp' = [op |-> "create", code |-> 500, batch_id |-> batch_id,
                        batch_data |-> batch_data]
            /\ UNCHANGED <<batches, tasks>>
       ELSE /\ batches' = [b \in DOMAIN batches \cup {batch_id} |->
                             IF b = batch_id THEN NewBatch(batch_data, user)
                             ELSE batches[b]]
            /\ tasks' = tasks
            /\ resp' = [op |-> "create", code |-> 200, batch_id |-> batch_id,
                        batch_data |-> batch_data]
  /\ UNCHANGED <<files, blocks, flags, cache>>

\* POST /batches (lines 19-123); batch_id is the id generate_batch_id draws.
\* A department_name of blanks raises the 400 of line 38, which the
\* `except Exception` of line 116 turns into a 500.
CreateBatch(batch_id, batch_data, user) ==
  /\ resp = NoResp
  /\ batch_id \notin DOMAIN batches
  /\ IF batch_data.department_name = " "
       THEN /\ resp' = [op |-> "create", code |-> 500, batch_id |-> batch_id,
                        batch_data |-> batch_data]
            /\ UNCHANGED <<batches, tasks>>
       ELSE /\ batches' = [b \in DOMAIN batches \cup {batch_id} |->
                             IF b = batch_id THEN NewBatch(batch_data, user)
                             ELSE batches[b]]
            /\ tasks' = IF files[batch_id] > 0 THEN tasks \cup {batch_id} ELSE tasks
            /\ resp' = [op |-> "create", code |-> 200, batch_id |-> batch_id,
                        batch_data |-> batch_data]
  /\ UNCHANGED <<files, blocks, flags, cache>>

\* variant: a metadata key the PATCH body does not name is cleared
ApplyMetadata_ClearsAbsent(batch, batch_data) ==
  [batch EXCEPT
     !.institution_name = IF "institution_name" \in DOMAIN batch_data
                            THEN batch_data["institution_name"] ELSE "",
     !.department_name = IF "department_name" \in DOMAIN batch_data
                           THEN batch_data["department_name"] ELSE "",
     !.academic_year = IF "academic_year" \in DOMAIN batch_data
                         THEN batch_data["academic_year"] ELSE ""]

\* lines 277-283: the three metadata keys of the PATCH body are applied
ApplyMetadata(batch, batch_data) ==
  [batch EXCEPT
     !.institution_name = IF "institution_name" \in DOMAIN batch_data
                            THEN batch_data["institution_name"] ELSE @,
     !.department_name = IF "department_name" \in DOMAIN batch_data
                           THEN batch_data["department_name"] ELSE @,
     !.academic_year = IF "academic_year" \in DOMAIN batch_data
                         THEN batch_data["academic_year"] ELSE @]

\* variant: every key of the PATCH body that names a column is applied
UpdateBatch_AllKeys(batch_id, batch_data) ==
  /\ resp = NoResp
  /\ IF batch_id \notin DOMAIN batches
       THEN /\ resp' = [op |-> "update", code |-> 404, batch_id |-> batch_id,
                        batch_data |-> batch_data]
            /\ UNCHANGED batches
       ELSE /\ batches' =
                 [batches EXCEPT ![batch_id] =
                    [ApplyMetadata(@, batch_data) EXCEPT
                       !.is_invalid = IF "is_invalid" \in DOMAIN batch_data
                                        THEN 0 ELSE @]]
            /\ resp' = [op |-> "update", code |-> 200, batch_id |-> batch_id,
                        batch_data |-> batch_data]
  /\ UNCHANGED <<files, blocks, flags, cache, tasks>>

\* PATCH /batches/{batch_id} (lines 261-307)
UpdateBatch(batch_id, batch_data) ==
  /\ resp = NoResp
  /\ IF batch_id \notin DOMAIN batches
       THEN /\ resp' = [op |-> "update", code |-> 404, batch_id |-> batch_id,
                        batch_data |-> batch_data]
            /\ UNCHANGED batches
       ELSE /\ batches' = [batches EXCEPT ![batch_id] = ApplyMetadata(@, batch_data)]
            /\ resp' = [op |-> "update", code |-> 200, batch_id |-> batch_id,
                        batch_data |-> batch_data]
  /\ UNCHANGED <<files, blocks, flags, cache, tasks>>

\* GET /batches/{batch_id} (lines 226-258)
GetBatch(batch_id) ==
  /\ resp = NoResp
  /\ resp' = IF batch_id \notin DOMAIN batches
               THEN [op |-> "get", code |-> 404, batch_id |-> batch_id]
               ELSE [op |-> "get", code |-> 200, batch_id |-> batch_id,
                     status |-> batches[batch_id].status,
                     total_documents |-> files[batch_id]]
  /\ UNCHANGED <<batches, files, blocks, flags, cache, tasks>>

\* lines 165-181: the submissions the user may list
Listable(db, user) ==
  {b \in DOMAIN db.batches :
     IF user.kind = "none" \/ user.role = "institution" THEN TRUE
     ELSE IF user.department_id # "" THEN db.batches[b].department_id = user.department_id
     ELSE IF user.uid # "" THEN db.batches[b].user_id = user.uid
     ELSE TRUE}

\* lines 148-222: the ids listed (the order by created_at is not kept)
list_batches(db, filter, user) ==
  {b \in Listable(db, user) :
     LET file_count == db.files[b]
         block_count == db.blocks[b].valid + db.blocks[b].invalid
     IN  /\ filter # "all" => (file_count # 0 /\ block_count # 0)
         /\ filter = "valid" => (db.batches[b].status = "completed" /\ file_count # 0)}

\* GET /batches
ListBatches(filter, user) ==
  /\ resp = NoResp
  /\ resp' = [op |-> "list", code |-> 200, batch_ids |-> list_batches(Db, filter, user)]
  /\ UNCHANGED <<batches, files, blocks, flags, cache, tasks>>

\* variant: the compliance flags of the deleted submission stay in the store
DeleteBatch_KeepsFlags(batch_id) ==
  /\ resp = NoResp
  /\ IF batch_id \notin DOMAIN batches
       THEN /\ resp' = [op |-> "delete", code |-> 404, batch_id |-> batch_id]
            /\ UNCHANGED <<batches, files, blocks, flags>>
       ELSE /\ batches' = [b \in DOMAIN batches \ {batch_id} |-> batches[b]]
            /\ files' = [files EXCEPT ![batch_id] = 0]
            /\ blocks' = [blocks EXCEPT ![batch_id] = NoBlocks[batch_id]]
            /\ flags' = flags
            /\ resp' = [op |-> "delete", code |-> 200, batch_id |-> batch_id]
  /\ UNCHANGED <<cache, tasks>>

\* DELETE /batches/{batch_id} (lines 339-359)
DeleteBatch(batch_id) ==
  /\ resp = NoResp
  /\ IF batch_id \notin DOMAIN batches
       THEN /\ resp' = [op |-> "delete", code |-> 404, batch_id |-> batch_id]
            /\ UNCHANGED <<batches, files, blocks, flags>>
       ELSE /\ batches' = [b \in DOMAIN batches \ {batch_id} |-> batches[b]]
            /\ files' = [files EXCEPT ![batch_id] = 0]
            /\ blocks' = [blocks EXCEPT ![batch_id] = NoBlocks[batch_id]]
            /\ flags' = [flags EXCEPT ![batch_id] = 0]
            /\ resp' = [op |-> "delete", code |-> 200, batch_id |-> batch_id]
  /\ UNCHANGED <<cache, tasks>>

\* the first submission of the store: uploaded and marked invalid, seeded and
\* valid, or still processing
ApiRows ==
  { Row(TRUE, Batch("completed", 1, "user", "CSE", GoodKpis, 0), 1, 1, 0),
    SystemRow(GoodKpis, "CSE", 0, 0),
    Row(TRUE, Batch("processing", 0, "user", "CSE", << >>, 0), 1, 0, 0) }

\* two stored submissions; b3 is not yet created
InitApi ==
  \E r1 \in ApiRows :
    StoreIs(Rows3(r1, SystemRow(GoodKpis, "CSE", 0, 0),
                  Row(FALSE, Batch("completed", 0, "system", "CSE", GoodKpis, 0), 0, 0, 0)))

\* POST bodies: no metadata, full metadata, a department name of blanks
CreateBodies ==
  { BatchCreate("", "", ""), BatchCreate("IIT", "CSE", "2024"), BatchCreate("", " ", "") }

\* PATCH bodies: a department, an institution together with a key that is
\* not metadata
PatchBodies ==
  { ("department_name" :> "ECE"), ("institution_name" :> "IIT") @@ ("is_invalid" :> "0") }

ApiUsers == {NoUser, UserDict("u2", "department", "d2")}

NextApi ==
  \/ \E d \in CreateBodies, u \in ApiUsers : CreateBatch("b3", d, u)
  \/ \E b \in {"b1", "b3"}, d \in PatchBodies : UpdateBatch(b, d)
  \/ \E b \in {"b1", "b3"} : GetBatch(b)
  \/ \E f \in {"", "all", "valid"}, u \in ApiUsers : ListBatches(f, u)
  \/ DeleteBatch("b3")
  \/ Compare(<<"b1", "b2">>)
  \/ RankTop(<<"b1", "b2", "b3">>, "overall", 3, NoWeights)
  \/ \E u \in ApiUsers : GetDashboard("b1", u)
  \/ \E u \in ApiUsers : GetTrends("b1", u)
  \/ \E u \in ApiUsers : GetForecast("b1", "overall_score", u)
  \/ Reply

SpecApi == InitApi /\ [][NextApi]_vars

(***************************************************************************)
(* C18: the validity flag is never reset                                   *)
(***************************************************************************)
\* C18: in every step of the batch API a stored submission that is marked
\* invalid stays marked invalid, and a submission that appears in the store
\* is valid and has status created.
C18_InvalidStays ==
  [][ /\ \A b \in DOMAIN batches \cap DOMAIN batches' :
           batches[b].is_invalid = 1 => batches'[b].is_invalid = 1
      /\ \A b \in DOMAIN batches' \ DOMAIN batches :
           batches'[b].is_invalid = 0 /\ batches'[b].status = "created" ]_vars

\* a submission was created while an invalid one, whose metadata has been
\* updated with a body naming is_invalid, is still invalid
C18_Witness ==
  /\ resp.op = "create" /\ resp.code = 200
  /\ batches[resp.batch_id].status = "created"
  /\ batches[resp.batch_id].is_invalid = 0
  /\ "b1" \in DOMAIN batches
  /\ batches["b1"].is_invalid = 1
  /\ batches["b1"].institution_name = "IIT"

(***************************************************************************)
(* C19: the read operations write nothing but cache entries                *)
(***************************************************************************)
\* C19: a compare, rank, dashboard, trends or forecast call leaves every
\* submission, document, block and compliance-flag record unchanged and
\* starts no background task; only the result cache may change.
C19_ReadsOnlyCache ==
  [][ (resp = NoResp /\ resp'.op \in {"compare", "rank", "dashboard", "trends", "forecast"})
        => UNCHANGED <<batches, files, blocks, flags, tasks>> ]_vars

\* a comparison was computed and its result stored in the cache
C19_Witness ==
  /\ resp.op = "compare" /\ resp.code = 200 /\ resp.source = "computed"
  /\ CacheHit(cache, get_cache_key("compare", resp.batch_ids))
  /\ CacheHit(cache, get_cache_key("dashboard", <<"b1">>))

(***************************************************************************)
(* C21: the ranked list is the head of the stable descending sort          *)
(***************************************************************************)
\* the scored entries of the request, in request order
C21_Scored == RankLoop(Db, cache, resp.batch_ids, resp.weight_map, << >>, << >>).ranked

\* the position of id b in the request
C21_Position(b) == CHOOSE i \in 1..Len(resp.batch_ids) : resp.batch_ids[i] = b

\* C21: the ranked list has min(top_n, number of scored submissions) entries,
\* each a scored submission; it is ordered by ranking_score descending with
\* equal scores in request order; and no scored submission left out has a
\* strictly higher ranking_score than one that is included.
C21_StableTopN ==
  RankAnswer =>
    LET list == resp.institutions
        scored == C21_Scored
        included == {list[i].batch_id : i \in 1..Len(list)}
    IN  /\ Len(list) = IF resp.top_n < Len(scored) THEN resp.top_n ELSE Len(scored)
        /\ \A i \in 1..Len(list) : \E j \in 1..Len(scored) : scored[j] = list[i]
        /\ \A i, j \in 1..Len(list) :
             i < j =>
               \/ list[i].ranking_score > list[j].ranking_score
               \/ /\ list[i].ranking_score = list[j].ranking_score
                  /\ C21_Position(list[i].batch_id) < C21_Position(list[j].batch_id)
        /\ \A j \in 1..Len(scored) :
             scored[j].batch_id \notin included =>
               \A i \in 1..Len(list) : scored[j].ranking_score <= list[i].ranking_score

\* three scored submissions of which two tie, asked in the order b2, b1 and
\* cut to the first one
C21_Witness ==
  /\ RankAnswer
  /\ resp.top_n = 1
  /\ Len(C21_Scored) = 3
  /\ resp.batch_ids[1] = "b2" /\ resp.batch_ids[2] = "b1"
  /\ C21_Scored[1].ranking_score = C21_Scored[2].ranking_score
  /\ C21_Scored[3].ranking_score < C21_Scored[1].ranking_score
  /\ resp.institutions[1].batch_id = "b2"

(***************************************************************************)
(* C22: category winners hold the maximum, in every scan order             *)
(***************************************************************************)
\* the labels of the institutions holding the maximum present value of k
C22_TopLabels(insts, k) == {insts[i].short_label : i \in C10_AtMax(insts, k)}

\* the labels a scan result names: its winner and its tie list
C22_Named(winner_label, tied) == {winner_label} \cup {tied[n] : n \in 1..Len(tied)}

\* the orders in which n institutions can be scanned
C22_Orders(n) == {p \in [1..n -> 1..n] : \A i, j \in 1..n : i # j => p[i] # p[j]}

\* C22: in a valid comparison every metric with a present value has a
\* category-winner record whose value is the maximum present value and whose
\* winner and tied_with entries are exactly the institutions holding that
\* maximum, with is_tie set when there are several; scanning the institutions
\* in any other order names the same set and the same is_tie.
C22_WinnersAtMaximum ==
  (CompareResult /\ resp.body.valid_for_comparison) =>
    \A k \in KpiKeys :
      LET insts == resp.body.institutions
          top == C10_AtMax(insts, k)
      IN  top # {} =>
            /\ \E r \in C10_Record(resp.body, k) :
                 /\ \A i \in top : r.winner_value = insts[i].kpis[k][1]
                 /\ C22_Named(r.winner_label, r.tied_with) = C22_TopLabels(insts, k)
                 /\ r.is_tie = (Cardinality(top) >= 2)
            /\ \A p \in C22_Orders(Len(insts)) :
                 LET scan == CategoryScan([i \in 1..Len(insts) |-> insts[p[i]]], k, NoBest)
                 IN  /\ C22_Named(scan.best_label, scan.tied_labels) = C22_TopLabels(insts, k)
                     /\ (Len(scan.tied_labels) > 0) = (Cardinality(top) >= 2)

(***************************************************************************)
(* Ingestion                                                               *)
(*                                                                         *)
(* BlockProcessingPipeline.process_batch is not part of the sources.  It   *)
(* is modelled from the lifecycle the specification gives a submission:    *)
(* created -> processing -> completed or failed, the KPI and block data    *)
(* being written while the status is processing, detached from every       *)
(* request.  Nothing invalidates a cache entry on such a write.            *)
(***************************************************************************)
\* the first step of process_batch on a submission that is still there
process_batch_start(bs, batch_id) ==
  IF batch_id \in DOMAIN bs /\ bs[batch_id].status = "created"
    THEN [bs EXCEPT ![batch_id].status = "processing"]
    ELSE bs

\* trigger_processing, run by BackgroundTasks after the response of
\* create_batch: starts the pipeline thread for the new submission
TriggerProcessing(batch_id) ==
  /\ batch_id \in tasks
  /\ tasks' = tasks \ {batch_id}
  /\ batches' = process_batch_start(batches, batch_id)
  /\ UNCHANGED <<files, blocks, flags, cache, resp>>

\* the pipeline writes extracted blocks and KPI results of a submission it is processing
PipelineWrite(batch_id, kpi_results) ==
  /\ batch_id \in DOMAIN batches
  /\ batches[batch_id].status = "processing"
  /\ batches' = [batches EXCEPT ![batch_id].kpi_results = kpi_results]
  /\ blocks' = [blocks EXCEPT ![batch_id].valid = 1, ![batch_id].years = 1]
  /\ UNCHANGED <<files, flags, cache, resp, tasks>>

\* the pipeline ends: the submission becomes completed or failed
PipelineFinish(batch_id, status) ==
  /\ batch_id \in DOMAIN batches
  /\ batches[batch_id].status = "processing"
  /\ batches' = [batches EXCEPT ![batch_id].status = status]
  /\ UNCHANGED <<files, blocks, flags, cache, resp, tasks>>

\* an uploaded submission the pipeline is working on: documents, nothing extracted yet
ProcessingRow(department_name) ==
  Row(TRUE, Batch("processing", 0, "user", department_name, << >>, 0), 1, 0, 0)

IngestRows == {SystemRow(GoodKpis, "ECE", 0, 0), SystemRow(Num("overall_score", 1), "", 0, 0)}

InitIngest ==
  \E d \in {"CSE", "ECE"}, r2 \in IngestRows, r3 \in IngestRows :
    StoreIs(Rows3(ProcessingRow(d), r2, r3))

\* what the pipeline may write as the KPI results of a submission
IngestKpis == {<< >>, Num("overall_score", 1), GoodKpis}

IngestLists == {<<"b1", "b2">>, <<"b2", "b3">>, <<"b1", "b2", "b3">>}

NextIngest ==
  \/ \E k \in IngestKpis : PipelineWrite("b1", k)
  \/ \E s \in {"completed", "failed"} : PipelineFinish("b1", s)
  \/ \E b \in {"b1", "b2"} : GetDashboard(b, NoUser)
  \/ \E ids \in IngestLists : Compare(ids)
  \/ CacheExpire
  \/ Reply

SpecIngest == InitIngest /\ [][NextIngest]_vars

(***************************************************************************)
(* C23: the department check and the skip list                             *)
(***************************************************************************)
C23_Department(batch_id) ==
  IF batch_id \in DOMAIN batches THEN batches[batch_id].department_name ELSE ""

\* the submission is in the skip list of the returned comparison
C23_Skipped(body, batch_id) ==
  \E i \in 1..Len(body.skipped_batches) : body.skipped_batches[i].batch_id = batch_id

\* C23: a returned comparison in which at least 2 institutions survive and
\* the surviving submissions carry at most one distinct non-empty department
\* name has valid_for_comparison = true, whatever the department names of
\* the submissions in its skip list.
C23_SurvivorsDecide ==
  LET insts == resp.body.institutions
      names == {C23_Department(insts[i].batch_id) : i \in 1..Len(insts)} \ {""}
  IN  (CompareResult /\ Len(insts) >= 2 /\ Cardinality(names) <= 1) =>
        resp.body.valid_for_comparison

(***************************************************************************)
(* C24: compare and the values read during processing                      *)
(*                                                                         *)
(* The pipeline writes only while the status is processing, and completed  *)
(* and failed are final, so a submission that passes the guard passes it   *)
(* from then on with the KPI values it has in the store.                   *)
(***************************************************************************)
\* the KPI values compare derives from the stored results of a submission
C24_StoredKpis(batch_id) == KpiMapOf(KpisMap(batches[batch_id].kpi_results))

\* C24: every institution of a returned comparison is a submission that
\* passes the guard, reported with the KPI values it has in the store since
\* it was completed, never with values read while it was being processed.
C24_GuardedValues ==
  CompareResult =>
    \A i \in 1..Len(resp.body.institutions) :
      LET inst == resp.body.institutions[i]
      IN  /\ _validate_batch(inst.batch_id).is_valid
          /\ inst.kpis = C24_StoredKpis(inst.batch_id)

(***************************************************************************)
(* C25: a department name of blanks                                        *)
(***************************************************************************)
\* create_batch was called with a department_name that is given but blank
C25_BlankCreate == resp.op = "create" /\ resp.batch_data.department_name = " "

\* C25: create_batch with a department_name that is provided but blank
\* answers 400 and creates no batch record.
C25_BlankRejected ==
  C25_BlankCreate => (resp.code = 400 /\ resp.batch_id \notin DOMAIN batches)

\* the part that holds: the call answers an error and creates no record
C25_BlankNotCreated ==
  C25_BlankCreate => (resp.code >= 400 /\ resp.batch_id \notin DOMAIN batches)

(***************************************************************************)
(* C26: create_batch and the start of processing                           *)
(*                                                                         *)
(* File.batch_id is a plain column, so document rows may exist under the   *)
(* id that generate_batch_id draws; create_batch counts them (line 85).    *)
(* BackgroundTasks runs a scheduled task once the response is sent, which  *)
(* is the weak fairness of TriggerProcessing.                              *)
(***************************************************************************)
\* b1 stored, b3 not yet created, with and without document rows under its id
InitCreate ==
  \E r1 \in ApiRows, n \in 0..MaxVal :
    StoreIs(Rows3(r1, SystemRow(GoodKpis, "CSE", 0, 0),
                  Row(FALSE, Batch("created", 0, "user", "", << >>, 0), n, 0, 0)))

NextCreate ==
  \/ \E d \in CreateBodies, u \in ApiUsers : CreateBatch("b3", d, u)
  \/ TriggerProcessing("b3")
  \/ \E k \in IngestKpis : PipelineWrite("b3", k)
  \/ \E s \in {"completed", "failed"} : PipelineFinish("b3", s)
  \/ \E d \in PatchBodies : UpdateBatch("b3", d)
  \/ GetBatch("b3")
  \/ Reply

SpecCreate == InitCreate /\ [][NextCreate]_vars /\ WF_vars(TriggerProcessing("b3"))

\* create_batch answered with the new submission
C26_Created == resp.op = "create" /\ resp.code = 200

\* processing of the submission has been started
C26_Started(batch_id) ==
  batch_id \in DOMAIN batches /\ batches[batch_id].status # "created"

DeleteRows ==
  { UserRow(GoodKpis, "CSE", 0, n) : n \in 0..MaxVal }
    \cup { SystemRow(GoodKpis, "CSE", 0, 1),
           Row(TRUE, Batch("processing", 0, "user", "ECE", << >>, 0), MaxVal, 0, 0) }

\* b1 and b2 stored, b3 not stored
InitDelete ==
  \E r1 \in DeleteRows, r2 \in DeleteRows :
    StoreIs(Rows3(r1, r2, Row(FALSE, Batch("created", 0, "user", "", << >>, 0), 0, 0, 0)))

NextDelete ==
  \/ \E b \in BatchIds : DeleteBatch(b)
  \/ \E d \in CreateBodies, u \in ApiUsers : CreateBatch("b3", d, u)
  \/ \E b \in BatchIds : GetBatch(b)
  \/ \E f \in {"", "all", "valid"} : ListBatches(f, NoUser)
  \/ Reply

SpecDelete == InitDelete /\ [][NextDelete]_vars

\* the store holds no record of any kind under the id
C27_NoRecord(bs, fs, bl, fl, batch_id) ==
  /\ batch_id \notin DOMAIN bs
  /\ fs[batch_id] = 0
  /\ bl[batch_id].valid = 0 /\ bl[batch_id].invalid = 0
  /\ fl[batch_id] = 0

\* C27: a delete_batch of a stored id succeeds and leaves no batch, block,
\* document or compliance-flag record under that id; a delete_batch of an
\* unknown id answers 404 and leaves the store unchanged.
C27_DeleteRemovesAll ==
  [][(resp.op = "none" /\ resp'.op = "delete") =>
       LET b == resp'.batch_id
       IN  IF b \in DOMAIN batches
             THEN /\ resp'.code = 200
                  /\ C27_NoRecord(batches', files', blocks', flags', b)
                  /\ \A o \in BatchIds \ {b} :
                       /\ (o \in DOMAIN batches) = (o \in DOMAIN batches')
                       /\ o \in DOMAIN batches => batches'[o] = batches[o]
                       /\ files'[o] = files[o] /\ blocks'[o] = blocks[o] /\ flags'[o] = flags[o]
             ELSE /\ resp'.code = 404
                  /\ <<batches, files, blocks, flags>>' = <<batches, files, blocks, flags>>]_vars

\* a submission with documents, blocks and flags was deleted
C27_Witness ==
  /\ resp.op = "delete" /\ resp.code = 200 /\ resp.batch_id = "b1"
  /\ C27_NoRecord(batches, files, blocks, flags, "b1")
  /\ "b2" \in DOMAIN batches /\ flags["b2"] > 0 /\ files["b2"] > 0

(***************************************************************************)
(* C28: what update_batch changes                                          *)
(***************************************************************************)
\* the columns update_batch may write
C28_Metadata == {"institution_name", "department_name", "academic_year"}

\* C28: an update_batch of a stored id sets exactly the metadata columns the
\* body names, to the values of the body, and leaves every other column of
\* that submission, every other submission and all other records as they
\* were; an update_batch of an unknown id answers 404 and changes nothing.
C28_UpdateFrame ==
  [][(resp.op = "none" /\ resp'.op = "update") =>
       LET b == resp'.batch_id
           body == resp'.batch_data
       IN  /\ <<files, blocks, flags>>' = <<files, blocks, flags>>
           /\ DOMAIN batches' = DOMAIN batches
           /\ \A o \in DOMAIN batches \ {b} : batches'[o] = batches[o]
           /\ IF b \in DOMAIN batches
                THEN /\ resp'.code = 200
                     /\ \A f \in DOMAIN batches[b] :
                          batches'[b][f] = IF f \in C28_Metadata \cap DOMAIN body
                                             THEN body[f] ELSE batches[b][f]
                ELSE resp'.code = 404]_vars

\* two updates of b1, each naming one column, have both taken effect
C28_Witness ==
  /\ resp.op = "update" /\ resp.code = 200 /\ resp.batch_id = "b1"
  /\ batches["b1"].department_name = "ECE"
  /\ batches["b1"].institution_name = "IIT"

(***************************************************************************)
(* Evaluations listing: dashboard.py list_evaluations                      *)
(***************************************************************************)
\* lines 192-213: completed valid submissions the user may see
EvaluationsQuery(db, user) ==
  {b \in DOMAIN db.batches :
     /\ db.batches[b].status = "completed"
     /\ db.batches[b].is_invalid = 0
     /\ IF user.kind = "none" \/ user.role = "institution" THEN TRUE
        ELSE IF user.department_id # "" THEN db.batches[b].department_id = user.department_id
        ELSE IF user.uid # "" THEN db.batches[b].user_id = user.uid
        ELSE TRUE}

\* line 236: kpi_results.get("overall_score", {}).get("value") if kpi_results
\* else None.  The inner .get exists on a record only: a bare number or any
\* other stored value raises AttributeError ("crash").
EvaluationScore(kpi_results) ==
  LET hit == KpiEntry(kpi_results, "overall_score")
  IN  IF kpi_results = << >> \/ hit = << >> THEN [kind |-> "ok", v |-> None]
      ELSE IF hit[1].shape = "rec" THEN [kind |-> "ok", v |-> hit[1].v]
      ELSE [kind |-> "crash", v |-> None]

\* lines 178-244: the filters of the request, then one entry per submission
\* (the order by academic_year and created_at is not kept); nothing catches
\* the AttributeError, so the request fails with a 500
list_evaluations(db, academic_year, department_name, user) ==
  LET listed == {b \in EvaluationsQuery(db, user) :
                   /\ academic_year # "" => db.batches[b].academic_year = academic_year
                   /\ department_name # "" => db.batches[b].department_name = department_name}
  IN  IF \E b \in listed : EvaluationScore(db.batches[b].kpi_results).kind = "crash"
        THEN [code |-> 500, evaluations |-> [b \in {} |-> None]]
        ELSE [code |-> 200,
              evaluations |-> [b \in listed |-> EvaluationScore(db.batches[b].kpi_results).v]]

\* GET /dashboard/evaluations
ListEvaluations(academic_year, department_name, user) ==
  LET out == list_evaluations(Db, academic_year, department_name, user)
  IN  /\ resp = NoResp
      /\ resp' = [op |-> "evaluations", academic_year |-> academic_year,
                  department_name |-> department_name, user |-> user,
                  code |-> out.code, evaluations |-> out.evaluations]
      /\ UNCHANGED <<batches, files, blocks, flags, cache, tasks>>

(***************************************************************************)
(* Seeding: scripts/seed_system_batches.py                                 *)
(***************************************************************************)
\* the list aicte_batches has 6 entries; one NBA submission follows
AicteSeeds == 6

\* Block rows create_aicte_blocks and create_nba_blocks add for one submission
AicteBlocks == 4

NbaBlocks == 3

\* the ids generate_batch_id draws for the seeded submissions
SeedAicteIds == {"s1", "s2", "s3", "s4", "s5", "s6"}

SeedNbaIds == {"s7"}

\* the columns of Block (database.py) and the keywords the script passes to Block(...)
BlockColumns ==
  {"id", "batch_id", "block_type", "data", "confidence", "extraction_confidence",
   "evidence_snippet", "evidence_page", "source_doc", "is_outdated", "is_low_quality",
   "is_invalid", "created_at"}

SeedBlockKeywords ==
  {"id", "batch_id", "block_type", "data", "confidence", "is_outdated", "evidence_doc_id"}

\* the declarative constructor raises TypeError for a keyword that names no
\* attribute of the class
BlockConstructs == SeedBlockKeywords \subseteq BlockColumns

\* lines 285-305 and 321-341: the row of a seeded submission, its KPI results
\* stored as bare numbers
SeedBatch(batch_id) ==
  LET aicte == batch_id \in SeedAicteIds
      first == batch_id \in {"s1", "s2", "s3"}
  IN  [Batch("completed", 0, "system",
             IF ~aicte THEN "Computer Science & Engineering"
             ELSE IF first THEN "Computer Engineering"
             ELSE "Electronics & Telecommunication",
             IF aicte THEN Num("fsr_score", 1) \o Num("overall_score", MaxVal)
             ELSE Num("po_attainment", 1) \o Num("overall_score", 1),
             1)
         EXCEPT !.department_id = "", !.user_id = "",
                !.institution_name = IF ~aicte THEN "Vishwakarma Institute of Technology"
                                     ELSE IF first THEN "Priyadarshini College of Engineering"
                                     ELSE "Marathwada Institute of Technology",
                !.academic_year = "2024-25"]

\* f with the given value under every new id
Extend(f, ids, v) == [b \in DOMAIN f \cup ids |-> IF b \in DOMAIN f THEN f[b] ELSE v]

\* variant: each submission is committed where the script flushes it
seed_system_batches_CommitEach(db) ==
  IF \E b \in DOMAIN db.batches : db.batches[b].data_source = "system"
    THEN [outcome |-> "skipped", batches |-> db.batches, files |-> db.files,
          blocks |-> db.blocks, flags |-> db.flags]
  ELSE IF ~BlockConstructs
    THEN [outcome |-> "error",
          batches |-> [b \in DOMAIN db.batches \cup {"s1"} |->
                         IF b \in DOMAIN db.batches THEN db.batches[b] ELSE SeedBatch(b)],
          files |-> Extend(db.files, {"s1"}, 0),
          blocks |-> Extend(db.blocks, {"s1"}, [valid |-> 0, invalid |-> 0, years |-> 0]),
          flags |-> Extend(db.flags, {"s1"}, 0)]
  ELSE LET ids == SeedAicteIds \cup SeedNbaIds
       IN  [outcome |-> "seeded",
            batches |-> [b \in DOMAIN db.batches \cup ids |->
                           IF b \in DOMAIN db.batches THEN db.batches[b] ELSE SeedBatch(b)],
            files |-> Extend(db.files, ids, 0),
            blocks |-> [b \in DOMAIN db.blocks \cup ids |->
                          IF b \in DOMAIN db.blocks THEN db.blocks[b]
                          ELSE [valid |-> IF b \in SeedAicteIds THEN AicteBlocks ELSE NbaBlocks,
                                invalid |-> 0, years |-> 1]],
            flags |-> Extend(db.flags, ids, 0)]

\* seed_system_batches (lines 173-362): nothing is done when a system
\* submission exists (lines 182-185); otherwise the rows are added in one
\* session and committed once at the end (line 352).  The first Block(...) of
\* create_aicte_blocks is given evidence_doc_id, which is no column of Block:
\* the TypeError reaches the except branch, which rolls the session back
\* (lines 358-361).
seed_system_batches(db) ==
  IF \E b \in DOMAIN db.batches : db.batches[b].data_source = "system"
    THEN [outcome |-> "skipped", batches |-> db.batches, files |-> db.files,
          blocks |-> db.blocks, flags |-> db.flags]
  ELSE IF ~BlockConstructs
    THEN [outcome |-> "error", batches |-> db.batches, files |-> db.files,
          blocks |-> db.blocks, flags |-> db.flags]
  ELSE LET ids == SeedAicteIds \cup SeedNbaIds
       IN  [outcome |-> "seeded",
            batches |-> [b \in DOMAIN db.batches \cup ids |->
                           IF b \in DOMAIN db.batches THEN db.batches[b] ELSE SeedBatch(b)],
            files |-> Extend(db.files, ids, 0),
            blocks |-> [b \in DOMAIN db.blocks \cup ids |->
                          IF b \in DOMAIN db.blocks THEN db.blocks[b]
                          ELSE [valid |-> IF b \in SeedAicteIds THEN AicteBlocks ELSE NbaBlocks,
                                invalid |-> 0, years |-> 1]],
            flags |-> Extend(db.flags, ids, 0)]

\* one run of the script
SeedSystemBatches ==
  LET out == seed_system_batches(Db)
  IN  /\ resp = NoResp
      /\ resp' = [op |-> "seed", outcome |-> out.outcome]
      /\ batches' = out.batches
      /\ files' = out.files
      /\ blocks' = out.blocks
      /\ flags' = out.flags
      /\ UNCHANGED <<cache, tasks>>

\* b1 stored in every form of its KPI results, b2 seeded, uploaded or not stored
SeedRows ==
  { SystemRow(GoodKpis, "CSE", 0, 0), UserRow(GoodKpis, "CSE", 0, 0),
    Row(FALSE, Batch("completed", 0, "user", "CSE", GoodKpis, 0), 0, 0, 0) }

InitSeed ==
  \E r1 \in ShapeRows, r2 \in SeedRows :
    StoreIs(Rows3(r1, r2, Row(FALSE, Batch("created", 0, "user", "", << >>, 0), 0, 0, 0)))

NextSeed ==
  \/ SeedSystemBatches
  \/ \E d \in {"", "CSE"}, u \in ApiUsers : ListEvaluations("", d, u)
  \/ \E b \in {"b1", "b2"} : DeleteBatch(b)
  \/ Reply

SpecSeed == InitSeed /\ [][NextSeed]_vars

(***************************************************************************)
(* C29: a seeding run is all-or-nothing                                    *)
(***************************************************************************)
C29_HasSystem(bs) == \E b \in DOMAIN bs : bs[b].data_source = "system"

C30_Restored(f(_)) == [b \in DOMAIN batches |-> [batches[b] EXCEPT !.kpi_results = f(@)]]

\* the answer to the request in progress over the given submissions
C30_Listing(bs) ==
  list_evaluations([Db EXCEPT !.batches = bs], resp.academic_year,
                   resp.department_name, resp.user)

\* every stored overall_score is a record or a bare number
C30_KnownShapes ==
  \A b \in DOMAIN batches :
    \A i \in 1..Len(batches[b].kpi_results) :
      batches[b].kpi_results[i].key = "overall_score" =>
        batches[b].kpi_results[i].shape \in {"rec", "num"}

\* C30: the evaluations listing answers with a list, and with the same
\* overall_score for every submission, whether the overall_score values are
\* stored as records {value: x} or as bare numbers x.
C30_ListingShapeIndependent ==
  (resp.op = "evaluations" /\ C30_KnownShapes) =>
    LET bare == C30_Listing(C30_Restored(C11_AsBare))
        rec == C30_Listing(C30_Restored(C11_AsRecord))
    IN  /\ bare.code = 200
        /\ rec.code = 200
        /\ bare.evaluations = rec.evaluations

\* the part that holds: stored as records, the listing is a list that
\* reports the stored numbers
C30_RecordListing ==
  (resp.op = "evaluations" /\ C30_KnownShapes) =>
    LET rec == C30_Listing(C30_Restored(C11_AsRecord))
    IN  /\ rec.code = 200
        /\ \A b \in DOMAIN rec.evaluations :
             rec.evaluations[b] = get_kpi_value(batches[b].kpi_results, "overall_score")
====
